---- MODULE Spec2Model ----
(***************************************************************************)
(* State machine of the weekly course-schedule editor (src/src/App.tsx):   *)
(* persisted storage, the startup load with its legacy migration, and the  *)
(* schedule store (slots, courses, assignments) with its handlers and the  *)
(* effects that follow every state change.                                 *)
(*                                                                         *)
(* Representation.  Free text (titles, professors, URLs, rooms, times,     *)
(* labels) is a sequence of one-character strings, so that trim,           *)
(* toLowerCase and the HH:MM test are computed character by character.     *)
(* Identifiers, days and class types are plain strings: the code only      *)
(* compares them.  A stored value is a text: absent, empty, unparseable,   *)
(* or a JSON text with the value it denotes and a flag telling whether it  *)
(* is the exact text JSON.stringify produces for that value.               *)
(***************************************************************************)
EXTENDS Integers, Sequences, FiniteSets, TLC

VARIABLES
    storage,          \* localStorage: key -> stored text
    phase,            \* "boot" (not mounted), "running", "crashed" (render threw)
    slots,            \* useState slots
    showSlotsSetup,   \* useState showSlotsSetup
    courses,          \* useState courses   (a JS value: array or not)
    assigns,          \* useState assigns   (a JS value: array or not)
    selectedCell,     \* useState selectedCell {day, slotId}
    selectedCourseId, \* useState selectedCourseId
    courseForm,       \* useState courseForm {id, title, defaultProfessors, courseUrl}
    slotEdit,         \* useState slotEdit {classType, room, professors}
    theme,            \* useState theme: "dark" or "light"
    clock,            \* logical clock behind uid() and Date.now()
    scanned,          \* legacy keys read by getItem during the last load, in order
    loadLog,          \* one record per completed startup load
    steps,            \* number of user operations since the last load
    stepBound,        \* how many user operations are followed after a load
    last,             \* the last step: handler, its arguments, and its dialog: the answer
                      \* to its confirm prompt, or "alert" when it reported an error
    call,             \* a call of one of the module-level functions: its name, its arguments
    result            \* the value that call returned, once it has returned

vars == <<storage, phase, slots, showSlotsSetup, courses, assigns, selectedCell,
          selectedCourseId, courseForm, slotEdit, theme, clock, scanned, loadLog, steps,
          stepBound, last, call, result>>

(***************************************************************************)
(* Bounds of the model                                                     *)
(***************************************************************************)
\* longest legacy array stored under "uni-schedule:v3"
MaxLegacyLen == 2
\* user operations explored after a startup load
MaxSteps == 3
\* startup loads in one behaviour
MaxLoads == 2

(***************************************************************************)
(* Strings                                                                 *)
(***************************************************************************)
RECURSIVE trimStart(_)
trimStart(s) == IF s # <<>> /\ Head(s) = " " THEN trimStart(Tail(s)) ELSE s

RECURSIVE trimEnd(_)
trimEnd(s) == IF s # <<>> /\ s[Len(s)] = " " THEN trimEnd(SubSeq(s, 1, Len(s) - 1)) ELSE s

\* String.prototype.trim
trim(s) == trimEnd(trimStart(s))

lowerChar(c) ==
    CASE c = "A" -> "a" []
         c = "B" -> "b" []
         c = "C" -> "c" []
         c = "D" -> "d" []
         c = "E" -> "e" []
         c = "F" -> "f" []
         c = "G" -> "g" []
         c = "H" -> "h" []
         c = "I" -> "i" []
         c = "J" -> "j" []
         c = "K" -> "k" []
         c = "L" -> "l" []
         c = "M" -> "m" []
         c = "N" -> "n" []
         c = "O" -> "o" []
         c = "P" -> "p" []
         c = "Q" -> "q" []
         c = "R" -> "r" []
         c = "S" -> "s" []
         c = "T" -> "t" []
         c = "U" -> "u" []
         c = "V" -> "v" []
         c = "W" -> "w" []
         c = "X" -> "x" []
         c = "Y" -> "y" []
         c = "Z" -> "z" []
         OTHER -> c

RECURSIVE toLowerCase(_)
\* String.prototype.toLowerCase
toLowerCase(s) == IF s = <<>> THEN <<>> ELSE <<lowerChar(Head(s))>> \o toLowerCase(Tail(s))

Digits == {"0", "1", "2", "3", "4", "5", "6", "7", "8", "9"}

\* /^([01]\d|2[0-3]):[0-5]\d$/
isHHMM(x) ==
    /\ Len(x) = 5
    /\ \/ x[1] \in {"0", "1"} /\ x[2] \in Digits
       \/ x[1] = "2" /\ x[2] \in {"0", "1", "2", "3"}
    /\ x[3] = ":"
    /\ x[4] \in {"0", "1", "2", "3", "4", "5"}
    /\ x[5] \in Digits

DAYS == <<"Mon", "Tue", "Wed", "Thu", "Fri">>

\* a JSON field value: its typeof and, for a string, the string
isDay(x) == x.t = "string" /\ x.v \in {"Mon", "Tue", "Wed", "Thu", "Fri"}

isClassType(x) == x.t = "string" /\ x.v \in {"THEORY", "LAB"}

\* the character U+2013 (en dash), which is not the hyphen "-"
EnDash == "U+2013"

\* `${start}<en dash>${end}`
recomputeLabel(start, end) == start \o <<EnDash>> \o end

T(hh, mm) == <<hh[1], hh[2], ":", mm[1], mm[2]>>

DEFAULT_SLOTS == <<
    [id |-> "09-11", start |-> T(<<"0","9">>, <<"0","0">>), end |-> T(<<"1","1">>, <<"0","0">>),
     label |-> recomputeLabel(T(<<"0","9">>, <<"0","0">>), T(<<"1","1">>, <<"0","0">>))],
    [id |-> "11-13", start |-> T(<<"1","1">>, <<"0","0">>), end |-> T(<<"1","3">>, <<"0","0">>),
     label |-> recomputeLabel(T(<<"1","1">>, <<"0","0">>), T(<<"1","3">>, <<"0","0">>))],
    [id |-> "14-16", start |-> T(<<"1","4">>, <<"0","0">>), end |-> T(<<"1","6">>, <<"0","0">>),
     label |-> recomputeLabel(T(<<"1","4">>, <<"0","0">>), T(<<"1","6">>, <<"0","0">>))],
    [id |-> "16-18", start |-> T(<<"1","6">>, <<"0","0">>), end |-> T(<<"1","8">>, <<"0","0">>),
     label |-> recomputeLabel(T(<<"1","6">>, <<"0","0">>), T(<<"1","8">>, <<"0","0">>))] >>

SLOTS_KEY == "uni-schedule:slots:v1"
COURSES_KEY == "uni-schedule:courses:v1"
ASSIGN_KEY == "uni-schedule:assignments:v1"
THEME_KEY == "uni-schedule:theme:v1"
\* (variant: oldest generation first)
LEGACY_ENTRIES_KEYS_oldestFirst == <<"uni-schedule:v1", "uni-schedule:v2", "uni-schedule:v3">>

LEGACY_ENTRIES_KEYS == <<"uni-schedule:v3", "uni-schedule:v2", "uni-schedule:v1">>

Range(f) == {f[i] : i \in DOMAIN f}

\* Math.random().toString(36).slice(2) + "-" + Date.now().toString(36): a fresh
\* string at every call, drawn from the logical clock
uid(c) == "uid-" \o ToString(c)

(***************************************************************************)
(* JSON texts and values                                                   *)
(***************************************************************************)
Arr(items) == [type |-> "array", items |-> items]
NonArray == [type |-> "object", items |-> <<>>]
JNull == [type |-> "null", items |-> <<>>]

isArray(v) == v.type = "array"

Absent == [kind |-> "absent", canon |-> TRUE, val |-> JNull]
EmptyText == [kind |-> "empty", canon |-> TRUE, val |-> JNull]
Garbage == [kind |-> "garbage", canon |-> TRUE, val |-> JNull]
\* a JSON text denoting v that is not the text JSON.stringify writes for v
\* (other white space, other key order)
Text(v) == [kind |-> "json", canon |-> FALSE, val |-> v]

\* a text that is stored as it is, and is no JSON text
Plain(t) == [kind |-> "plain", canon |-> TRUE, val |-> [type |-> "string", items |-> <<t>>]]

\* localStorage.getItem: null when the key is absent
getItem(st, key) == st[key]

\* JavaScript truthiness of a getItem result: null and "" are falsy
truthy(raw) == raw.kind \notin {"absent", "empty"}

\* JSON.parse throws a SyntaxError on "" and on any text that is not JSON
parseThrows(raw) == raw.kind # "json"

\* JSON.parse: the value the text denotes
JSON_parse(raw) == raw.val

\* JSON.stringify: the one canonical text of the value
JSON_stringify(v) == [kind |-> "json", canon |-> TRUE, val |-> v]

\* localStorage.setItem
setItem(st, key, text) == [st EXCEPT ![key] = text]

(***************************************************************************)
(* Slot registry: validation and load                                      *)
(***************************************************************************)
\* normalizeSlots giving every kept slot the computed label
normalizeItems_relabel(items) ==
    [i \in DOMAIN items |-> [items[i] EXCEPT !.label = recomputeLabel(items[i].start, items[i].end)]]

RECURSIVE normalizeItems(_)
\* the loop of normalizeSlots; every element of a stored registry of this model
\* is an object with string fields, so the typeof tests keep each field
normalizeItems(items) ==
    IF items = <<>> THEN <<>>
    ELSE LET x == Head(items)
             id == x.id
             start == x.start
             end == x.end
             label == x.label
         IN IF id = "" \/ ~isHHMM(start) \/ ~isHHMM(end)
            THEN normalizeItems(Tail(items))
            ELSE <<[id |-> id, start |-> start, end |-> end,
                    label |-> IF label # <<>> THEN label ELSE recomputeLabel(start, end)]>>
                 \o normalizeItems(Tail(items))

normalizeSlots(raw) == IF ~isArray(raw) THEN <<>> ELSE normalizeItems(raw.items)

loadSlotsFromStorage(st) ==
    LET raw == getItem(st, SLOTS_KEY)
    IN IF ~truthy(raw) THEN [slots |-> DEFAULT_SLOTS, isFirstTime |-> TRUE]
       ELSE IF parseThrows(raw) THEN [slots |-> DEFAULT_SLOTS, isFirstTime |-> TRUE]
       ELSE LET s == normalizeSlots(JSON_parse(raw))
            IN IF Len(s) = 0 THEN [slots |-> DEFAULT_SLOTS, isFirstTime |-> TRUE]
               ELSE [slots |-> s, isFirstTime |-> FALSE]

\* the stored theme when it is "light", otherwise "dark"
loadTheme(st) == IF getItem(st, THEME_KEY) = Plain("light") THEN "light" ELSE "dark"

(***************************************************************************)
(* Legacy migration: entries -> courses + assignments                      *)
(***************************************************************************)
\* the string of a field when typeof says string, otherwise the default
stringOr(f, default) == IF f.t = "string" THEN f.v ELSE default

\* byTitle.get(title): the course synthesized for this exact title, if any
byTitleHas(cs, title) == \E i \in DOMAIN cs : cs[i].title = title
byTitleGet(cs, title) == cs[CHOOSE i \in DOMAIN cs : cs[i].title = title]

\* (variant: the old field name slot is not read)
entrySlotId_noFallback(x) == stringOr(x.slotId, "")

\* the slot identifier of a legacy entry: slotId when a string, or else slot
entrySlotId(x) == IF x.slotId.t = "string" THEN x.slotId.v ELSE stringOr(x.slot, "")

\* (variant: a synthesized course starts without default professors)
newCourseFromEntry_noDefaults(x, title, c) ==
    [id |-> uid(c), title |-> title, defaultProfessors |-> <<>>,
     courseUrl |-> stringOr(x.courseUrl, <<>>), createdAt |-> c]

\* the course defaults taken from the entry that creates the course
newCourseFromEntry(x, title, c) ==
    [id |-> uid(c), title |-> title,
     defaultProfessors |-> stringOr(x.professors, <<>>),
     courseUrl |-> stringOr(x.courseUrl, <<>>),
     createdAt |-> c]

\* one iteration of the loop over a legacy array; acc = [courses, assigns, clock]
migrateEntry(x, slts, acc) ==
    IF x.t # "object" THEN acc
    ELSE LET title == IF x.title.t = "string" THEN trim(x.title.v) ELSE <<>>
             dayRaw == x.day
             slotId == entrySlotId(x)
         IN IF title = <<>> \/ ~isDay(dayRaw) \/ slotId = "" THEN acc
            ELSE LET classType == IF isClassType(x.classType) THEN x.classType.v ELSE "THEORY"
                     room == stringOr(x.room, <<>>)
                     professors == stringOr(x.professors, <<>>)
                     known == byTitleHas(acc.courses, title)
                     course == IF known THEN byTitleGet(acc.courses, title)
                               ELSE newCourseFromEntry(x, title, acc.clock)
                     courses1 == IF known THEN acc.courses ELSE Append(acc.courses, course)
                     clock1 == IF known THEN acc.clock ELSE acc.clock + 1
                 IN IF ~(\E i \in DOMAIN slts : slts[i].id = slotId)
                    THEN [courses |-> courses1, assigns |-> acc.assigns, clock |-> clock1]
                    ELSE [courses |-> courses1,
                          assigns |-> Append(acc.assigns,
                              [id |-> uid(clock1), courseId |-> course.id, day |-> dayRaw.v,
                               slotId |-> slotId, classType |-> classType, room |-> room,
                               professors |-> IF professors # <<>> THEN professors
                                              ELSE course.defaultProfessors,
                               createdAt |-> clock1]),
                          clock |-> clock1 + 1]

RECURSIVE migrateEntries(_, _, _)
migrateEntries(data, slts, acc) ==
    IF data = <<>> THEN acc
    ELSE migrateEntries(Tail(data), slts, migrateEntry(Head(data), slts, acc))

\* a key that is skipped: nothing found, no uid() drawn
skipped(c) == [found |-> FALSE, courses |-> <<>>, assigns |-> <<>>, clock |-> c]

\* if (courses.length || assigns.length) return { courses, assigns }
reconstructed(r, c) ==
    IF Len(r.courses) # 0 \/ Len(r.assigns) # 0
    THEN [found |-> TRUE, courses |-> r.courses, assigns |-> r.assigns, clock |-> r.clock]
    ELSE skipped(c)

\* the body of the loop over LEGACY_ENTRIES_KEYS for the text of one key: found is
\* FALSE when the key is skipped (falsy, unparseable, not an array, or nothing
\* reconstructed)
migrateText(raw, slts, c) ==
    IF ~truthy(raw) THEN skipped(c)
    ELSE IF parseThrows(raw) THEN skipped(c)
    ELSE IF ~isArray(JSON_parse(raw)) THEN skipped(c)
    ELSE reconstructed(migrateEntries(JSON_parse(raw).items, slts,
                                      [courses |-> <<>>, assigns |-> <<>>, clock |-> c]), c)

migrateKey(st, key, slts, c) == migrateText(getItem(st, key), slts, c)

RECURSIVE migrateFrom(_, _, _, _, _)
\* what the loop does with the result r of key k: return it, or go on with k + 1
afterKey(k, st, slts, c, read, r) ==
    IF r.found
    THEN [found |-> TRUE, courses |-> r.courses, assigns |-> r.assigns,
          clock |-> r.clock, read |-> read]
    ELSE migrateFrom(k + 1, st, slts, c, read)

\* the loop over the legacy keys from position k on; read is the keys read so far
migrateFrom(k, st, slts, c, read) ==
    IF k > Len(LEGACY_ENTRIES_KEYS)
    THEN [found |-> FALSE, courses |-> <<>>, assigns |-> <<>>, clock |-> c, read |-> read]
    ELSE afterKey(k, st, slts, c, Append(read, LEGACY_ENTRIES_KEYS[k]),
                  migrateKey(st, LEGACY_ENTRIES_KEYS[k], slts, c))

\* found = FALSE is the null result
tryMigrateLegacyToNew(st, slts, c) == migrateFrom(1, st, slts, c, <<>>)

(***************************************************************************)
(* Derived values of a render                                              *)
(***************************************************************************)
\* courseMap.get(id): whether there is such a course, and the one the Map keeps
\* (the last of that id)
courseMapHas(cs, id) == \E i \in DOMAIN cs : cs[i].id = id
courseMapGet(cs, id) ==
    cs[CHOOSE i \in DOMAIN cs : cs[i].id = id /\ \A j \in DOMAIN cs : cs[j].id = id => j <= i]

\* assignMap: day__slotId -> assignment; a later assignment of the same key
\* overwrites an earlier one in the Map
assignMapHas(as, day, slotId) == \E i \in DOMAIN as : as[i].day = day /\ as[i].slotId = slotId
assignMapGet(as, day, slotId) ==
    as[CHOOSE i \in DOMAIN as :
          /\ as[i].day = day /\ as[i].slotId = slotId
          /\ \A j \in DOMAIN as : (as[j].day = day /\ as[j].slotId = slotId) => j <= i]

\* selectedAssignment?.id, the dependency of the slotEdit effect
selectedAssignmentId(as, cell) ==
    IF assignMapHas(as, cell.day, cell.slotId)
    THEN <<"id", assignMapGet(as, cell.day, cell.slotId).id>>
    ELSE <<"undefined", "">>

(***************************************************************************)
(* Effects                                                                 *)
(***************************************************************************)
\* (variant: there is no persist effect for the assignments)
persistEffects_noAssigns(st, s0, c0, a0, s1, c1, a1) ==
    LET st1 == IF s1 # s0 THEN setItem(st, SLOTS_KEY, JSON_stringify(Arr(s1))) ELSE st
    IN IF c1 # c0 THEN setItem(st1, COURSES_KEY, JSON_stringify(Arr(c1))) ELSE st1

\* the three persist effects, each run when its collection changed
persistEffects(st, s0, c0, a0, s1, c1, a1) ==
    LET st1 == IF s1 # s0 THEN setItem(st, SLOTS_KEY, JSON_stringify(Arr(s1))) ELSE st
        st2 == IF c1 # c0 THEN setItem(st1, COURSES_KEY, JSON_stringify(Arr(c1))) ELSE st1
    IN IF a1 # a0 THEN setItem(st2, ASSIGN_KEY, JSON_stringify(Arr(a1))) ELSE st2

\* the effect of the theme: it stores the theme as it is
themeEffect(st, t) == setItem(st, THEME_KEY, Plain(t))

\* all three persist effects, as they run after the first render
persistOnMount(st, s1, c1, a1) ==
    setItem(setItem(setItem(st, SLOTS_KEY, JSON_stringify(Arr(s1))),
                    COURSES_KEY, JSON_stringify(c1)),
            ASSIGN_KEY, JSON_stringify(a1))

\* (variant: the selection stays on a slot that left the registry)
ensureSelectedSlot_kept(s1, cell) == cell

\* "ensure selected slot exists"
ensureSelectedSlot(s1, cell) ==
    IF Len(s1) = 0 THEN cell
    ELSE IF ~(\E i \in DOMAIN s1 : s1[i].id = cell.slotId)
         THEN [cell EXCEPT !.slotId = s1[1].id]
         ELSE cell

\* the body of the slotEdit effect
loadSlotEdit(as, cell) ==
    IF ~assignMapHas(as, cell.day, cell.slotId)
    THEN [classType |-> "THEORY", room |-> <<>>, professors |-> <<>>]
    ELSE LET a == assignMapGet(as, cell.day, cell.slotId)
         IN [classType |-> a.classType, room |-> a.room, professors |-> a.professors]

\* the slotEdit effect runs when selectedAssignment?.id differs from the last render's
syncSlotEdit(dep0, as, cell, se) ==
    IF selectedAssignmentId(as, cell) = dep0 THEN se ELSE loadSlotEdit(as, cell)

(***************************************************************************)
(* Startup: the useState initializer of App, then the first render         *)
(***************************************************************************)
\* (variant: the normalized keys are used only when no legacy key holds a text)
normalizedFound_legacyFirst(st) ==
    /\ truthy(getItem(st, COURSES_KEY)) /\ truthy(getItem(st, ASSIGN_KEY))
    /\ ~parseThrows(getItem(st, COURSES_KEY)) /\ ~parseThrows(getItem(st, ASSIGN_KEY))
    /\ \A k \in Range(LEGACY_ENTRIES_KEYS) : ~truthy(getItem(st, k))

\* (variant: the slot-registry key is required as well)
normalizedFound_threeKeys(st) ==
    /\ truthy(getItem(st, SLOTS_KEY)) /\ ~parseThrows(getItem(st, SLOTS_KEY))
    /\ truthy(getItem(st, COURSES_KEY)) /\ truthy(getItem(st, ASSIGN_KEY))
    /\ ~parseThrows(getItem(st, COURSES_KEY)) /\ ~parseThrows(getItem(st, ASSIGN_KEY))

\* "load new storage if exists": both keys truthy and both texts parse
normalizedFound(st) ==
    LET rawCourses == getItem(st, COURSES_KEY)
        rawAssign == getItem(st, ASSIGN_KEY)
    IN /\ truthy(rawCourses) /\ truthy(rawAssign)
       /\ ~parseThrows(rawCourses) /\ ~parseThrows(rawAssign)

\* (variant: the migration also clears the legacy keys it has read)
persistMigrated_cleanup(st, cs, as) ==
    [k \in DOMAIN st |->
        IF k = COURSES_KEY THEN JSON_stringify(Arr(cs))
        ELSE IF k = ASSIGN_KEY THEN JSON_stringify(Arr(as))
        ELSE IF k \in Range(LEGACY_ENTRIES_KEYS) THEN Absent
        ELSE st[k]]

\* the two writes that follow a successful migration
persistMigrated(st, cs, as) ==
    setItem(setItem(st, COURSES_KEY, JSON_stringify(Arr(cs))), ASSIGN_KEY, JSON_stringify(Arr(as)))

\* the branch taken with the normalized keys
initNormalized(st, c, s) ==
    [slots |-> s.slots, showSetup |-> s.isFirstTime,
     courses |-> JSON_parse(getItem(st, COURSES_KEY)),
     assigns |-> JSON_parse(getItem(st, ASSIGN_KEY)),
     theme |-> loadTheme(st),
     storage |-> st, clock |-> c, read |-> <<>>, migrated |-> FALSE]

\* the branch taken with the result of tryMigrateLegacyToNew
initMigrated(st, c, s, migrated) ==
    IF migrated.found
    THEN [slots |-> s.slots, showSetup |-> s.isFirstTime,
          courses |-> Arr(migrated.courses), assigns |-> Arr(migrated.assigns),
          theme |-> loadTheme(st),
          storage |-> persistMigrated(st, migrated.courses, migrated.assigns),
          clock |-> migrated.clock, read |-> migrated.read, migrated |-> TRUE]
    ELSE [slots |-> s.slots, showSetup |-> s.isFirstTime,
          courses |-> Arr(<<>>), assigns |-> Arr(<<>>),
          theme |-> loadTheme(st),
          storage |-> st, clock |-> c, read |-> migrated.read, migrated |-> FALSE]

initWithSlots(st, c, s) ==
    IF normalizedFound(st) THEN initNormalized(st, c, s)
    ELSE initMigrated(st, c, s, tryMigrateLegacyToNew(st, s.slots, c))

\* the useState initializer of App
initState(st, c) == initWithSlots(st, c, loadSlotsFromStorage(st))

blankCourseForm == [id |-> "", title |-> <<>>, defaultProfessors |-> <<>>, courseUrl |-> <<>>]
blankSlotEdit == [classType |-> "THEORY", room |-> <<>>, professors |-> <<>>]

\* the render throws when courses.map or the iteration of assigns is applied to a
\* value that is not an array; no effect runs then
renders(cs, as) == isArray(cs) /\ isArray(as)

\* selectedCell as first set: Monday and the first slot of the registry
firstCell(init) ==
    [day |-> "Mon",
     slotId |-> IF Len(init.slots) > 0 THEN init.slots[1].id ELSE DEFAULT_SLOTS[1].id]

\* the first render and the mount effects, for the initializer's result
mount(init, ok, cell1, st1) ==
    /\ phase' = IF ok THEN "running" ELSE "crashed"
    /\ slots' = init.slots
    /\ showSlotsSetup' = init.showSetup
    /\ courses' = init.courses
    /\ assigns' = init.assigns
    /\ selectedCell' = cell1
    /\ selectedCourseId' = ""
    /\ courseForm' = blankCourseForm
    /\ slotEdit' = IF ok THEN loadSlotEdit(init.assigns.items, cell1) ELSE blankSlotEdit
    /\ theme' = init.theme
    /\ storage' = st1
    /\ clock' = init.clock
    /\ scanned' = init.read
    /\ loadLog' = Append(loadLog,
           [courses |-> init.courses, assigns |-> init.assigns, slots |-> init.slots,
            migrated |-> init.migrated, read |-> init.read, clock0 |-> clock,
            before |-> storage, wrote |-> init.storage, after |-> st1])
    /\ steps' = 0
    /\ last' = [op |-> "load", prompt |-> "none", id |-> "", dir |-> 0]
    /\ UNCHANGED <<stepBound, call, result>>

mountInit(init, ok) ==
    mount(init, ok,
          IF ok THEN ensureSelectedSlot(init.slots, firstCell(init)) ELSE firstCell(init),
          IF ok
          THEN themeEffect(persistOnMount(init.storage, init.slots, init.courses, init.assigns),
                           init.theme)
          ELSE init.storage)

mountResult(init) == mountInit(init, renders(init.courses, init.assigns))

\* Mounting the application: initializer, first render, mount effects
Load ==
    /\ phase = "boot"
    /\ Len(loadLog) < MaxLoads
    /\ mountResult(initState(storage, clock))

\* Closing the page and opening it again: memory is lost, storage stays
Reload ==
    /\ phase \in {"running", "crashed"}
    /\ Len(loadLog) < MaxLoads
    /\ phase' = "boot"
    /\ slots' = <<>>
    /\ showSlotsSetup' = FALSE
    /\ courses' = Arr(<<>>)
    /\ assigns' = Arr(<<>>)
    /\ selectedCell' = [day |-> "Mon", slotId |-> ""]
    /\ selectedCourseId' = ""
    /\ courseForm' = blankCourseForm
    /\ slotEdit' = blankSlotEdit
    /\ theme' = "dark"
    /\ steps' = 0
    /\ last' = [op |-> "reload", prompt |-> "none", id |-> "", dir |-> 0]
    /\ UNCHANGED <<storage, clock, scanned, loadLog, stepBound, call, result>>

(***************************************************************************)
(* Storage contents at the first startup                                   *)
(***************************************************************************)
S(v) == [t |-> "string", v |-> v]
\* a field that is missing, for a text field and for an identifier field
UT == [t |-> "undefined", v |-> <<>>]
UA == [t |-> "undefined", v |-> ""]
\* a field holding a number
NT == [t |-> "number", v |-> <<>>]

\* a legacy entry: {title, day, slotId | slot, classType, room, professors, courseUrl}
Entry(title, day, slotId, slot, classType, room, professors, courseUrl) ==
    [t |-> "object", title |-> title, day |-> day, slotId |-> slotId, slot |-> slot,
     classType |-> classType, room |-> room, professors |-> professors,
     courseUrl |-> courseUrl]

\* an array element that is no object (null)
NullEntry ==
    [t |-> "null", title |-> UT, day |-> UA, slotId |-> UA, slot |-> UA,
     classType |-> UA, room |-> UT, professors |-> UT, courseUrl |-> UT]

LegacyPool == {
    \* title "a", no professors, no URL, no class type
    Entry(S(<<"a">>), S("Mon"), S("09-11"), UA, UA, UT, S(<<>>), UT),
    \* title " a": the same title after trim, same cell, with professors and URL
    Entry(S(<<" ", "a">>), S("Mon"), S("09-11"), UA, S("LAB"), S(<<"r">>), S(<<"p">>), S(<<"u">>)),
    \* title "A": differs from "a" in letter case only; old field name slot
    Entry(S(<<"A">>), S("Tue"), UA, S("11-13"), S("X"), UT, S(<<"q">>), UT),
    \* a slot that is in no registry of the model
    Entry(S(<<"b">>), S("Mon"), S("zz"), UA, S("THEORY"), UT, UT, S(<<"u">>)),
    \* blank title
    Entry(S(<<" ">>), S("Mon"), S("09-11"), UA, UA, UT, UT, UT),
    \* unknown day
    Entry(S(<<"a">>), S("Sun"), S("09-11"), UA, UA, UT, S(<<"p">>), UT),
    \* slotId is the empty string, slot is set
    Entry(S(<<"a">>), S("Wed"), S(""), S("11-13"), UA, UT, UT, UT),
    \* title is not a string
    Entry(NT, S("Mon"), S("09-11"), UA, UA, UT, UT, UT),
    NullEntry }

LegacyArrays(n) == UNION {[1..k -> LegacyPool] : k \in 0..n}

\* stored course and assignment records
Crs(id, title, prof) ==
    [id |-> id, title |-> title, defaultProfessors |-> prof, courseUrl |-> <<>>, createdAt |-> 0]
Asg(id, courseId, day, slotId, classType, room) ==
    [id |-> id, courseId |-> courseId, day |-> day, slotId |-> slotId,
     classType |-> classType, room |-> room, professors |-> <<>>, createdAt |-> 0]

\* a stored custom registry: one custom slot, one default slot
CustomSlots == <<
    [id |-> "s1", start |-> T(<<"0","8">>, <<"3","0">>), end |-> T(<<"1","0">>, <<"0","0">>),
     label |-> <<"m">>],
    DEFAULT_SLOTS[1] >>

StoredCourses == <<Crs("c1", <<"a">>, <<"p">>), Crs("c2", <<"b">>, <<>>)>>
StoredAssigns == <<Asg("a1", "c1", "Mon", "09-11", "LAB", <<"r">>),
                   Asg("a2", "c2", "Tue", "s1", "THEORY", <<>>)>>

\* records a shape check would reject (a course with an empty title, an assignment
\* with an unknown class type, one with an unknown day); two of them share a cell
BadCourses == <<Crs("c1", <<"a">>, <<>>), Crs("c3", <<>>, <<>>)>>
BadAssigns == <<Asg("a1", "c1", "Mon", "09-11", "THEORY", <<>>),
                Asg("a3", "c1", "Mon", "09-11", "X", <<>>),
                Asg("a4", "c1", "Sun", "09-11", "LAB", <<>>)>>

\* (course-catalog text, assignment-list text) pairs
NormalizedPairs == {
    <<Absent, Absent>>,
    <<JSON_stringify(Arr(StoredCourses)), Absent>>,
    <<Garbage, JSON_stringify(Arr(StoredAssigns))>>,
    <<EmptyText, Text(Arr(<<>>))>>,
    <<JSON_stringify(Arr(StoredCourses)), JSON_stringify(Arr(StoredAssigns))>>,
    <<Text(Arr(StoredCourses)), Text(Arr(<<>>))>>,
    <<Text(NonArray), Text(Arr(<<>>))>>,
    <<Text(Arr(BadCourses)), Text(Arr(BadAssigns))>> }

SlotTexts == {Absent, Garbage, JSON_stringify(Arr(CustomSlots))}

V3Texts == {Absent, Garbage, Text(NonArray)} \cup {Text(Arr(a)) : a \in LegacyArrays(MaxLegacyLen)}

V2Texts == {Absent, EmptyText,
            Text(Arr(<<NullEntry>>)),
            Text(Arr(<<Entry(S(<<"b">>), S("Fri"), S("s1"), UA, UA, UT, UT, UT)>>))}

\* {title: "Algorithms", day: "Mon", slot: "09-11", room: "A1", professors: "Smith"}
AlgorithmsEntry ==
    Entry(S(<<"A", "l", "g", "o", "r", "i", "t", "h", "m", "s">>), S("Mon"), UA, S("09-11"), UA,
          S(<<"A", "1">>), S(<<"S", "m", "i", "t", "h">>), UT)

V1Texts == {Absent, Text(NonArray),
            Text(Arr(<<Entry(S(<<"B">>), S("Mon"), UA, S("09-11"), S("THEORY"),
                             S(<<"r">>), S(<<"p">>), S(<<>>))>>)),
            Text(Arr(<<AlgorithmsEntry>>))}

mkStorage(sl, pair, v3, v2, v1) ==
    (SLOTS_KEY :> sl) @@ (COURSES_KEY :> pair[1]) @@ (ASSIGN_KEY :> pair[2])
    @@ ("uni-schedule:v3" :> v3) @@ ("uni-schedule:v2" :> v2) @@ ("uni-schedule:v1" :> v1)
    @@ (THEME_KEY :> Absent)

\* what the theme key may hold at the first startup: nothing, the light theme, and a
\* text that names no theme
ThemeTexts == {Absent, Plain("light"), Plain("blue")}

InitMemory ==
    /\ phase = "boot"
    /\ slots = <<>>
    /\ showSlotsSetup = FALSE
    /\ courses = Arr(<<>>)
    /\ assigns = Arr(<<>>)
    /\ selectedCell = [day |-> "Mon", slotId |-> ""]
    /\ selectedCourseId = ""
    /\ courseForm = blankCourseForm
    /\ slotEdit = blankSlotEdit
    /\ theme = "dark"
    /\ clock = 1
    /\ scanned = <<>>
    /\ loadLog = <<>>
    /\ steps = 0
    /\ last = [op |-> "none", prompt |-> "none", id |-> "", dir |-> 0]
    /\ call = [fn |-> "none"]
    /\ result = [done |-> FALSE]

\* every combination of stored texts
LoadInit ==
    /\ InitMemory
    /\ stepBound = MaxSteps
    /\ \E sl \in SlotTexts, pair \in NormalizedPairs, v3 \in V3Texts, v2 \in V2Texts,
          v1 \in V1Texts, t \in ThemeTexts :
          storage = setItem(mkStorage(sl, pair, v3, v2, v1), THEME_KEY, t)

LoadNext == Load \/ Reload

\* startup loads only: first load, page reload, second load
LoadSpec == LoadInit /\ [][LoadNext]_vars

(***************************************************************************)
(* User operations.  A handler runs to completion, React renders, and the  *)
(* effects run before the next event is handled: one action each.          *)
(***************************************************************************)
\* values typed into the inputs
TitleInputs == {<<"a">>, <<"A", " ">>, <<" ">>, <<"c">>}
ProfInputs == {<<"q", " ">>}
UrlInputs == {<<"u">>}
RoomInputs == {<<" ", "r", "2">>}
TimeInputs == {T(<<"1","0">>, <<"3","0">>), <<"9">>}
\* an identifier that belongs to no slot and no course
Ghost == "ghost"

slotIds == {slots[i].id : i \in DOMAIN slots}
courseIds == {courses.items[i].id : i \in DOMAIN courses.items}

\* what every user operation shares: the page is up, the step is counted; id and
\* dir are the handler's arguments
OpOn(name, prompt, id, dir) ==
    /\ phase = "running"
    /\ steps < stepBound
    /\ phase' = phase
    /\ steps' = steps + 1
    /\ last' = [op |-> name, prompt |-> prompt, id |-> id, dir |-> dir]
    /\ UNCHANGED <<theme, scanned, loadLog, stepBound, call, result>>

\* a handler without arguments
Op(name, prompt) == OpOn(name, prompt, "", 0)

answer(ok) == IF ok THEN "yes" ELSE "no"

\* the render and the effects that follow the handler's state updates
Commit(s1, cs1, as1, cellH, seH) ==
    LET dep0 == selectedAssignmentId(assigns.items, selectedCell)
        se1 == syncSlotEdit(dep0, as1, cellH, seH)
        dep1 == selectedAssignmentId(as1, cellH)
        cell2 == ensureSelectedSlot(s1, cellH)
        se2 == syncSlotEdit(dep1, as1, cell2, se1)
    IN /\ slots' = s1
       /\ courses' = Arr(cs1)
       /\ assigns' = Arr(as1)
       /\ selectedCell' = cell2
       /\ slotEdit' = se2
       /\ storage' = persistEffects(storage, slots, courses.items, assigns.items, s1, cs1, as1)

\* a handler that returns early, or whose prompt is declined: no state update
NoChange ==
    UNCHANGED <<storage, slots, showSlotsSetup, courses, assigns, selectedCell,
                selectedCourseId, courseForm, slotEdit, clock>>

(***************************************************************************)
(* Slots setup screen                                                      *)
(***************************************************************************)
newSlot(id) ==
    [id |-> id, start |-> T(<<"0","9">>, <<"0","0">>), end |-> T(<<"1","0">>, <<"0","0">>),
     label |-> recomputeLabel(T(<<"0","9">>, <<"0","0">>), T(<<"1","0">>, <<"0","0">>))]

addSlot ==
    /\ showSlotsSetup
    /\ Op("addSlot", "none")
    /\ Commit(Append(slots, newSlot(uid(clock))), courses.items, assigns.items,
              selectedCell, slotEdit)
    /\ clock' = clock + 1
    /\ UNCHANGED <<showSlotsSetup, selectedCourseId, courseForm>>

\* prev.map((s) => (s.id === id ? { ...s, ...patch } : s)), patch = {start, label}
patchStart(prev, id, v, nextLabel) ==
    [i \in DOMAIN prev |->
        IF prev[i].id = id THEN [prev[i] EXCEPT !.start = v, !.label = nextLabel] ELSE prev[i]]

\* the same with patch = {end, label}
patchEnd(prev, id, v, nextLabel) ==
    [i \in DOMAIN prev |->
        IF prev[i].id = id THEN [prev[i] EXCEPT !.end = v, !.label = nextLabel] ELSE prev[i]]

\* onChange of the start input of the i-th slot, then updateSlot
updateSlotStart(i, v) ==
    /\ showSlotsSetup
    /\ i \in DOMAIN slots
    /\ Op("updateSlot", "none")
    /\ LET s == slots[i]
           nextLabel == IF isHHMM(v) /\ isHHMM(s.end) THEN recomputeLabel(v, s.end) ELSE s.label
       IN Commit(patchStart(slots, s.id, v, nextLabel), courses.items, assigns.items,
                 selectedCell, slotEdit)
    /\ UNCHANGED <<showSlotsSetup, selectedCourseId, courseForm, clock>>

\* onChange of the end input of the i-th slot, then updateSlot
updateSlotEnd(i, v) ==
    /\ showSlotsSetup
    /\ i \in DOMAIN slots
    /\ Op("updateSlot", "none")
    /\ LET s == slots[i]
           nextLabel == IF isHHMM(s.start) /\ isHHMM(v) THEN recomputeLabel(s.start, v) ELSE s.label
       IN Commit(patchEnd(slots, s.id, v, nextLabel), courses.items, assigns.items,
                 selectedCell, slotEdit)
    /\ UNCHANGED <<showSlotsSetup, selectedCourseId, courseForm, clock>>

\* prev.findIndex((s) => s.id === id), 0 when there is none (JavaScript's -1)
findIndex(prev, id) ==
    IF \E i \in DOMAIN prev : prev[i].id = id
    THEN CHOOSE i \in DOMAIN prev : prev[i].id = id /\ \A j \in DOMAIN prev : prev[j].id = id => i <= j
    ELSE 0

\* (variant: the neighbour is copied over the slot and not written back)
movedSlots_overwrite(prev, id, dir) ==
    LET i == findIndex(prev, id)
        j == i + dir
    IN IF i < 1 THEN prev
       ELSE IF j < 1 \/ j > Len(prev) THEN prev
       ELSE [k \in DOMAIN prev |-> IF k = i THEN prev[j] ELSE prev[k]]

\* the updater of moveSlot
movedSlots(prev, id, dir) ==
    LET i == findIndex(prev, id)
        j == i + dir
    IN IF i < 1 THEN prev
       ELSE IF j < 1 \/ j > Len(prev) THEN prev
       ELSE [k \in DOMAIN prev |-> IF k = i THEN prev[j] ELSE IF k = j THEN prev[i] ELSE prev[k]]

moveSlot(id, dir) ==
    /\ showSlotsSetup
    /\ OpOn("moveSlot", "none", id, dir)
    /\ Commit(movedSlots(slots, id, dir), courses.items, assigns.items, selectedCell, slotEdit)
    /\ UNCHANGED <<showSlotsSetup, selectedCourseId, courseForm, clock>>

slotsWithout(prev, id) == LET Keep(s) == s.id # id IN SelectSeq(prev, Keep)
\* (variant: the assignments of the deleted slot stay)
assignsOffSlot_kept(prev, id) == prev

assignsOffSlot(prev, id) == LET Keep(a) == a.slotId # id IN SelectSeq(prev, Keep)

\* (variant: the answer to the prompt is not looked at)
deleteSlot_unasked(id, ok) ==
    /\ showSlotsSetup
    /\ OpOn("deleteSlot", answer(ok), id, 0)
    /\ Commit(slotsWithout(slots, id), courses.items, assignsOffSlot(assigns.items, id),
              selectedCell, slotEdit)
    /\ UNCHANGED <<showSlotsSetup, selectedCourseId, courseForm, clock>>

deleteSlot(id, ok) ==
    /\ showSlotsSetup
    /\ OpOn("deleteSlot", answer(ok), id, 0)
    /\ IF ~ok THEN NoChange
       ELSE /\ Commit(slotsWithout(slots, id), courses.items, assignsOffSlot(assigns.items, id),
                      selectedCell, slotEdit)
            /\ UNCHANGED <<showSlotsSetup, selectedCourseId, courseForm, clock>>

\* (variant: no assignment is removed)
assignsOnDefaults_kept(prev) == prev

assignsOnDefaults(prev) ==
    LET keep == {DEFAULT_SLOTS[i].id : i \in DOMAIN DEFAULT_SLOTS}
        Keep(a) == a.slotId \in keep
    IN SelectSeq(prev, Keep)

resetToDefaults(ok) ==
    /\ showSlotsSetup
    /\ Op("resetToDefaults", answer(ok))
    /\ IF ~ok THEN NoChange
       ELSE /\ Commit(DEFAULT_SLOTS, courses.items, assignsOnDefaults(assigns.items),
                      selectedCell, slotEdit)
            /\ UNCHANGED <<showSlotsSetup, selectedCourseId, courseForm, clock>>

\* the button that leaves the setup screen
finishSetup ==
    /\ showSlotsSetup
    /\ IF Len(slots) = 0 \/ \E i \in DOMAIN slots : ~isHHMM(slots[i].start) \/ ~isHHMM(slots[i].end)
       THEN Op("finishSetup", "alert") /\ NoChange
       ELSE /\ Op("finishSetup", "none")
            /\ showSlotsSetup' = FALSE
            /\ UNCHANGED <<storage, slots, courses, assigns, selectedCell, selectedCourseId,
                           courseForm, slotEdit, clock>>

\* the "Sessions" button of the main screen
openSetup ==
    /\ ~showSlotsSetup
    /\ Op("openSetup", "none")
    /\ showSlotsSetup' = TRUE
    /\ UNCHANGED <<storage, slots, courses, assigns, selectedCell, selectedCourseId,
                   courseForm, slotEdit, clock>>

(***************************************************************************)
(* Main screen: course catalog                                             *)
(***************************************************************************)
\* onChange of the three inputs of the course form
setCourseForm(field, v) ==
    /\ ~showSlotsSetup
    /\ Op("setCourseForm", "none")
    /\ \/ field = "title" /\ v \in TitleInputs /\ courseForm' = [courseForm EXCEPT !.title = v]
       \/ field = "defaultProfessors" /\ v \in ProfInputs
          /\ courseForm' = [courseForm EXCEPT !.defaultProfessors = v]
       \/ field = "courseUrl" /\ v \in UrlInputs /\ courseForm' = [courseForm EXCEPT !.courseUrl = v]
    /\ UNCHANGED <<storage, slots, showSlotsSetup, courses, assigns, selectedCell,
                   selectedCourseId, slotEdit, clock>>

\* (variant: the titles are compared as written, letter case included)
existsSameTitle_caseSensitive(cs, title, formId) ==
    \E i \in DOMAIN cs : trim(cs[i].title) = title /\ cs[i].id # formId

\* courses.some((c) => c.title.trim().toLowerCase() === title.toLowerCase() && c.id !== courseForm.id)
existsSameTitle(cs, title, formId) ==
    \E i \in DOMAIN cs :
        toLowerCase(trim(cs[i].title)) = toLowerCase(title) /\ cs[i].id # formId

\* the updater of the edit branch of upsertCourse
editedCourses(prev, form, title) ==
    [i \in DOMAIN prev |->
        IF prev[i].id = form.id
        THEN [prev[i] EXCEPT !.title = title,
                             !.defaultProfessors = trim(form.defaultProfessors),
                             !.courseUrl = trim(form.courseUrl)]
        ELSE prev[i]]

\* the course built by the add branch of upsertCourse
addedCourse(form, title, c) ==
    [id |-> uid(c), title |-> title, defaultProfessors |-> trim(form.defaultProfessors),
     courseUrl |-> trim(form.courseUrl), createdAt |-> c]

upsertCourse ==
    /\ ~showSlotsSetup
    /\ LET title == trim(courseForm.title)
       IN IF title = <<>> THEN Op("upsertCourse", "alert") /\ NoChange
          ELSE IF existsSameTitle(courses.items, title, courseForm.id)
          THEN Op("upsertCourse", "alert") /\ NoChange
          ELSE IF courseForm.id # ""
          THEN /\ Op("upsertCourse", "none")
               /\ Commit(slots, editedCourses(courses.items, courseForm, title), assigns.items,
                         selectedCell, slotEdit)
               /\ UNCHANGED <<showSlotsSetup, selectedCourseId, courseForm, clock>>
          ELSE /\ Op("upsertCourse", "none")
               /\ Commit(slots, Append(courses.items, addedCourse(courseForm, title, clock)),
                         assigns.items, selectedCell, slotEdit)
               /\ selectedCourseId' = uid(clock)
               /\ courseForm' = blankCourseForm
               /\ clock' = clock + 1
               /\ UNCHANGED showSlotsSetup

selectCourseForEdit(courseId) ==
    /\ ~showSlotsSetup
    /\ Op("selectCourseForEdit", "none")
    /\ IF ~courseMapHas(courses.items, courseId) THEN NoChange
       ELSE LET c == courseMapGet(courses.items, courseId)
            IN /\ selectedCourseId' = courseId
               /\ courseForm' = [id |-> c.id, title |-> c.title,
                                 defaultProfessors |-> c.defaultProfessors,
                                 courseUrl |-> c.courseUrl]
               /\ UNCHANGED <<storage, slots, showSlotsSetup, courses, assigns, selectedCell,
                              slotEdit, clock>>

clearCourseForm ==
    /\ ~showSlotsSetup
    /\ Op("clearCourseForm", "none")
    /\ courseForm' = blankCourseForm
    /\ UNCHANGED <<storage, slots, showSlotsSetup, courses, assigns, selectedCell,
                   selectedCourseId, slotEdit, clock>>

\* (variant: the catalog is emptied whichever course is deleted)
coursesWithout_everything(prev, courseId) == <<>>

coursesWithout(prev, courseId) == LET Keep(x) == x.id # courseId IN SelectSeq(prev, Keep)
\* (variant: the assignments of the deleted course stay)
assignsOffCourse_kept(prev, courseId) == prev

assignsOffCourse(prev, courseId) == LET Keep(a) == a.courseId # courseId IN SelectSeq(prev, Keep)

deleteCourse(courseId, ok) ==
    /\ ~showSlotsSetup
    /\ IF ~courseMapHas(courses.items, courseId)
       THEN ok /\ OpOn("deleteCourse", "none", courseId, 0) /\ NoChange
       ELSE /\ OpOn("deleteCourse", answer(ok), courseId, 0)
            /\ IF ~ok THEN NoChange
               ELSE /\ Commit(slots, coursesWithout(courses.items, courseId),
                              assignsOffCourse(assigns.items, courseId), selectedCell, slotEdit)
                    /\ selectedCourseId' = IF selectedCourseId = courseId THEN ""
                                           ELSE selectedCourseId
                    /\ courseForm' = IF courseForm.id = courseId THEN blankCourseForm
                                     ELSE courseForm
                    /\ UNCHANGED <<showSlotsSetup, clock>>

clearAllCoursesAndSlots(ok) ==
    /\ ~showSlotsSetup
    /\ Op("clearAllCoursesAndSlots", answer(ok))
    /\ IF ~ok THEN NoChange
       ELSE /\ Commit(slots, <<>>, <<>>, selectedCell, slotEdit)
            /\ selectedCourseId' = ""
            /\ courseForm' = blankCourseForm
            /\ UNCHANGED <<showSlotsSetup, clock>>

\* onChange of the course select: "" or the id of a listed course
setSelectedCourseId(v) ==
    /\ ~showSlotsSetup
    /\ v \in courseIds \cup {""}
    /\ Op("setSelectedCourseId", "none")
    /\ selectedCourseId' = v
    /\ UNCHANGED <<storage, slots, showSlotsSetup, courses, assigns, selectedCell,
                   courseForm, slotEdit, clock>>

(***************************************************************************)
(* Main screen: assignments                                                *)
(***************************************************************************)
\* a click on the cell of a day and of a registry slot
setSelectedCell(day, slotId) ==
    /\ ~showSlotsSetup
    /\ slotId \in slotIds
    /\ Op("setSelectedCell", "none")
    /\ Commit(slots, courses.items, assigns.items, [day |-> day, slotId |-> slotId], slotEdit)
    /\ UNCHANGED <<showSlotsSetup, selectedCourseId, courseForm, clock>>

\* (variant: the key is built with day and slot exchanged, so no lookup ever hits)
existingAt_swappedKey(as, cell) == assignMapHas(as, cell.slotId, cell.day)

\* assignMap.get(key) of placeSelectedCourseToCell
existingAt(as, cell) == assignMapHas(as, cell.day, cell.slotId)

\* (variant: the occupant is rebuilt like a new assignment)
retargeted_rebuilt(prev, existingId, courseId) ==
    [i \in DOMAIN prev |->
        IF prev[i].id = existingId
        THEN [prev[i] EXCEPT !.courseId = courseId, !.classType = "THEORY", !.room = <<>>]
        ELSE prev[i]]

\* the updater of the conflict branch: the course reference of the occupant changes
retargeted(prev, existingId, courseId) ==
    [i \in DOMAIN prev |->
        IF prev[i].id = existingId THEN [prev[i] EXCEPT !.courseId = courseId] ELSE prev[i]]

\* (variant: the professors of a new assignment start empty)
placedAssignment_noDefaults(course, cell, c) ==
    [id |-> uid(c), courseId |-> course.id, day |-> cell.day, slotId |-> cell.slotId,
     classType |-> "THEORY", room |-> <<>>, professors |-> <<>>, createdAt |-> c]

\* the assignment built for an empty cell
placedAssignment(course, cell, c) ==
    [id |-> uid(c), courseId |-> course.id, day |-> cell.day, slotId |-> cell.slotId,
     classType |-> "THEORY", room |-> <<>>, professors |-> course.defaultProfessors,
     createdAt |-> c]

placeSelectedCourseToCell(ok) ==
    /\ ~showSlotsSetup
    /\ LET courseId == selectedCourseId
       IN IF courseId = "" \/ ~courseMapHas(courses.items, courseId)
          THEN ok /\ Op("placeSelectedCourseToCell", "alert") /\ NoChange
          ELSE IF existingAt(assigns.items, selectedCell)
          THEN /\ Op("placeSelectedCourseToCell", answer(ok))
               /\ IF ~ok THEN NoChange
                  ELSE /\ Commit(slots, courses.items,
                                 retargeted(assigns.items,
                                     assignMapGet(assigns.items, selectedCell.day,
                                                  selectedCell.slotId).id,
                                     courseId),
                                 selectedCell, slotEdit)
                       /\ UNCHANGED <<showSlotsSetup, selectedCourseId, courseForm, clock>>
          ELSE /\ ok
               /\ Op("placeSelectedCourseToCell", "none")
               /\ Commit(slots, courses.items,
                         Append(assigns.items,
                                placedAssignment(courseMapGet(courses.items, courseId),
                                                 selectedCell, clock)),
                         selectedCell, slotEdit)
               /\ clock' = clock + 1
               /\ UNCHANGED <<showSlotsSetup, selectedCourseId, courseForm>>

assignsWithout(prev, id) == LET Keep(a) == a.id # id IN SelectSeq(prev, Keep)

\* the button is rendered, and the handler goes on, only with a selected assignment
removeAssignmentFromCell(ok) ==
    /\ ~showSlotsSetup
    /\ existingAt(assigns.items, selectedCell)
    /\ Op("removeAssignmentFromCell", answer(ok))
    /\ IF ~ok THEN NoChange
       ELSE /\ Commit(slots, courses.items,
                      assignsWithout(assigns.items,
                          assignMapGet(assigns.items, selectedCell.day, selectedCell.slotId).id),
                      selectedCell, slotEdit)
            /\ UNCHANGED <<showSlotsSetup, selectedCourseId, courseForm, clock>>

\* onChange of the inputs of the slot editor, rendered only with a selected assignment
setSlotEdit(field, v) ==
    /\ ~showSlotsSetup
    /\ existingAt(assigns.items, selectedCell)
    /\ Op("setSlotEdit", "none")
    /\ \/ field = "classType" /\ v \in {"THEORY", "LAB"} /\ slotEdit' = [slotEdit EXCEPT !.classType = v]
       \/ field = "room" /\ v \in RoomInputs /\ slotEdit' = [slotEdit EXCEPT !.room = v]
       \/ field = "professors" /\ v \in ProfInputs /\ slotEdit' = [slotEdit EXCEPT !.professors = v]
    /\ UNCHANGED <<storage, slots, showSlotsSetup, courses, assigns, selectedCell,
                   selectedCourseId, courseForm, clock>>

\* (variant: the updater does not test the id)
editedAssigns_all(prev, id, se) ==
    [i \in DOMAIN prev |->
        [prev[i] EXCEPT !.classType = se.classType, !.room = trim(se.room),
                        !.professors = trim(se.professors)]]

\* the updater of saveSlotEdits
editedAssigns(prev, id, se) ==
    [i \in DOMAIN prev |->
        IF prev[i].id = id
        THEN [prev[i] EXCEPT !.classType = se.classType, !.room = trim(se.room),
                             !.professors = trim(se.professors)]
        ELSE prev[i]]

\* if (!selectedAssignment) return; then the updater
saveSlotEdits ==
    /\ ~showSlotsSetup
    /\ Op("saveSlotEdits", "none")
    /\ IF ~existingAt(assigns.items, selectedCell) THEN NoChange
       ELSE /\ Commit(slots, courses.items,
                      editedAssigns(assigns.items,
                          assignMapGet(assigns.items, selectedCell.day, selectedCell.slotId).id,
                          slotEdit),
                      selectedCell, slotEdit)
            /\ UNCHANGED <<showSlotsSetup, selectedCourseId, courseForm, clock>>

resetSlotProfessorsFromDefault ==
    /\ ~showSlotsSetup
    /\ existingAt(assigns.items, selectedCell)
    /\ Op("resetSlotProfessorsFromDefault", "none")
    /\ LET a == assignMapGet(assigns.items, selectedCell.day, selectedCell.slotId)
           def == IF courseMapHas(courses.items, a.courseId)
                  THEN courseMapGet(courses.items, a.courseId).defaultProfessors ELSE <<>>
       IN slotEdit' = [slotEdit EXCEPT !.professors = def]
    /\ UNCHANGED <<storage, slots, showSlotsSetup, courses, assigns, selectedCell,
                   selectedCourseId, courseForm, clock>>

(***************************************************************************)
(* The application: startup, then user operations                          *)
(***************************************************************************)
\* days of the cells the user clicks
DayInputs == {"Mon", "Tue"}

(***************************************************************************)
(* Theme                                                                   *)
(***************************************************************************)
\* the theme button of both screens; the effect of the theme follows the render
toggleTheme ==
    /\ phase = "running"
    /\ steps < stepBound
    /\ phase' = phase
    /\ steps' = steps + 1
    /\ last' = [op |-> "toggleTheme", prompt |-> "none", id |-> "", dir |-> 0]
    /\ theme' = IF theme = "dark" THEN "light" ELSE "dark"
    /\ storage' = themeEffect(storage, theme')
    /\ UNCHANGED <<slots, showSlotsSetup, courses, assigns, selectedCell, selectedCourseId,
                   courseForm, slotEdit, clock, scanned, loadLog, stepBound, call, result>>

\* storage contents at startup: nothing stored; a stored session with a custom
\* registry; two legacy generations; stored records no shape check has seen
SpecStorages == {
    mkStorage(Absent, <<Absent, Absent>>, Absent, Absent, Absent),
    mkStorage(JSON_stringify(Arr(CustomSlots)),
              <<JSON_stringify(Arr(StoredCourses)), JSON_stringify(Arr(StoredAssigns))>>,
              Absent, Absent, Absent),
    mkStorage(Absent, <<Absent, Absent>>,
              Text(Arr(<<Entry(S(<<"a">>), S("Mon"), S("09-11"), UA, UA, UT, S(<<>>), UT),
                         Entry(S(<<"A">>), S("Tue"), UA, S("11-13"), S("X"), UT, S(<<"q">>), UT)>>)),
              Absent, Absent),
    mkStorage(JSON_stringify(Arr(CustomSlots)), <<Garbage, Absent>>, Garbage, EmptyText,
              Text(Arr(<<Entry(S(<<"B">>), S("Mon"), UA, S("09-11"), S("THEORY"),
                               S(<<"r">>), S(<<"p">>), S(<<>>))>>))),
    mkStorage(Absent, <<Text(Arr(BadCourses)), Text(Arr(BadAssigns))>>, Absent, Absent, Absent) }

Init ==
    /\ InitMemory
    /\ stepBound = MaxSteps
    /\ \E st \in SpecStorages, t \in ThemeTexts : storage = setItem(st, THEME_KEY, t)

Next ==
    \/ Load
    \/ addSlot
    \/ \E i \in DOMAIN slots, v \in TimeInputs : updateSlotStart(i, v)
    \/ \E i \in DOMAIN slots, v \in TimeInputs : updateSlotEnd(i, v)
    \/ \E id \in slotIds \cup {Ghost}, dir \in {-1, 1} : moveSlot(id, dir)
    \/ \E id \in slotIds \cup {Ghost}, ok \in BOOLEAN : deleteSlot(id, ok)
    \/ \E ok \in BOOLEAN : resetToDefaults(ok)
    \/ finishSetup
    \/ openSetup
    \/ \E v \in TitleInputs : setCourseForm("title", v)
    \/ \E v \in ProfInputs : setCourseForm("defaultProfessors", v)
    \/ \E v \in UrlInputs : setCourseForm("courseUrl", v)
    \/ upsertCourse
    \/ \E id \in courseIds : selectCourseForEdit(id)
    \/ clearCourseForm
    \/ \E id \in courseIds \cup {Ghost}, ok \in BOOLEAN : deleteCourse(id, ok)
    \/ \E ok \in BOOLEAN : clearAllCoursesAndSlots(ok)
    \/ \E v \in courseIds \cup {""} : setSelectedCourseId(v)
    \/ \E day \in DayInputs, slotId \in slotIds : setSelectedCell(day, slotId)
    \/ \E ok \in BOOLEAN : placeSelectedCourseToCell(ok)
    \/ \E ok \in BOOLEAN : removeAssignmentFromCell(ok)
    \/ \E v \in {"THEORY", "LAB"} : setSlotEdit("classType", v)
    \/ \E v \in RoomInputs : setSlotEdit("room", v)
    \/ \E v \in ProfInputs : setSlotEdit("professors", v)
    \/ saveSlotEdits
    \/ resetSlotProfessorsFromDefault
    \/ toggleTheme

Spec == Init /\ [][Next]_vars

(***************************************************************************)
(* The application followed one operation further.  A course is placed     *)
(* after a change of the registry no sooner than with the fourth           *)
(* operation: the change, the button that leaves the setup screen, the     *)
(* choice of the course, the placement.                                    *)
(***************************************************************************)
MaxDeepSteps == 4

\* the legacy entries of the oldest generation: two courses placed on the first two
\* default slots; the session starts on the setup screen
DeepStorage ==
    mkStorage(Absent, <<Absent, Absent>>, Absent, Absent,
              Text(Arr(<<Entry(S(<<"a">>), S("Mon"), S("09-11"), UA, UA, UT, S(<<>>), UT),
                         Entry(S(<<"c">>), S("Tue"), S("11-13"), UA, UA, UT, S(<<>>), UT)>>)))

\* the sessions of Init, and the session on DeepStorage with one more operation
DeepInit ==
    /\ InitMemory
    /\ \/ stepBound = MaxSteps
          /\ \E st \in SpecStorages, t \in ThemeTexts : storage = setItem(st, THEME_KEY, t)
       \/ stepBound = MaxDeepSteps
          /\ storage = DeepStorage

DeepSpec == DeepInit /\ [][Next]_vars

(***************************************************************************)
(* groupCourses: the courses with their sessions, as the list under the    *)
(* table and the exported page show them                                   *)
(***************************************************************************)
\* Array.prototype.sort with a comparator: stable, ascending
sortPosition(s, cmp(_, _), i) ==
    1 + Cardinality({j \in DOMAIN s :
                        \/ cmp(s[j], s[i]) < 0
                        \/ cmp(s[j], s[i]) = 0 /\ j < i})
sort(s, cmp(_, _)) ==
    [k \in DOMAIN s |-> s[CHOOSE i \in DOMAIN s : sortPosition(s, cmp, i) = k]]

\* the collation of the ASCII characters under the locale "el": white space,
\* punctuation, symbols, digits, letters; the two cases of a letter differ only
\* at the last level, lower case first (the grave accent, which no text of
\* this model holds, is left out)
Collation == <<" ", "_", "-", ",", ";", ":", "!", "?", ".", "'", "\"", "(", ")", "[", "]", "{",
               "}", "@", "*", "/", "\\", "&", "#", "%", "^", "+", "<", "=", ">", "|", "~",
               "$", "0", "1", "2", "3", "4", "5", "6", "7", "8", "9", "a", "b", "c", "d", "e",
               "f", "g", "h", "i", "j", "k", "l", "m", "n", "o", "p", "q", "r", "s", "t", "u",
               "v", "w", "x", "y", "z">>
primaryWeight(c) ==
    IF \E i \in DOMAIN Collation : Collation[i] = lowerChar(c)
    THEN CHOOSE i \in DOMAIN Collation : Collation[i] = lowerChar(c)
    ELSE Len(Collation) + 1
caseWeight(c) == IF lowerChar(c) = c THEN 0 ELSE 1

\* the first index where the two weight sequences differ, 0 when one is a prefix
firstDifference(a, b, weight(_)) ==
    IF \E i \in 1..Len(a) : i <= Len(b) /\ weight(a[i]) # weight(b[i])
    THEN CHOOSE i \in 1..Len(a) :
            /\ i <= Len(b) /\ weight(a[i]) # weight(b[i])
            /\ \A j \in 1..(i - 1) : weight(a[j]) = weight(b[j])
    ELSE 0
compareWeights(a, b, weight(_), i) ==
    IF i # 0 THEN (IF weight(a[i]) < weight(b[i]) THEN -1 ELSE 1)
    ELSE IF Len(a) < Len(b) THEN -1 ELSE IF Len(a) > Len(b) THEN 1 ELSE 0

\* String.prototype.localeCompare(b, "el"): letters first, then case
localeCompare(a, b) ==
    IF compareWeights(a, b, primaryWeight, firstDifference(a, b, primaryWeight)) # 0
    THEN compareWeights(a, b, primaryWeight, firstDifference(a, b, primaryWeight))
    ELSE compareWeights(a, b, caseWeight, firstDifference(a, b, caseWeight))

\* buildSlotIndex(slots).get(slotId): the last position holding the id, from 0
slotIdxHas(sl, slotId) == \E i \in DOMAIN sl : sl[i].id = slotId
slotIdxGet(sl, slotId) ==
    (CHOOSE i \in DOMAIN sl : sl[i].id = slotId /\ \A j \in DOMAIN sl : sl[j].id = slotId => j <= i)
    - 1

\* DAYS.findIndex((x) => x.key === d)
dayOrder(d) ==
    IF \E i \in DOMAIN DAYS : DAYS[i] = d
    THEN (CHOOSE i \in DOMAIN DAYS : DAYS[i] = d) - 1
    ELSE -1
\* a slot order that puts the ids the registry does not know first
slotOrder_missingFirst(sl, slotId) == IF slotIdxHas(sl, slotId) THEN slotIdxGet(sl, slotId) ELSE -1

\* slotIdx.get(slotId) ?? 9999
slotOrder(sl, slotId) == IF slotIdxHas(sl, slotId) THEN slotIdxGet(sl, slotId) ELSE 9999

\* the comparator of g.sessions.sort
compareSessions(x, y, sl) ==
    IF dayOrder(x.day) - dayOrder(y.day) # 0
    THEN dayOrder(x.day) - dayOrder(y.day)
    ELSE slotOrder(sl, x.slotId) - slotOrder(sl, y.slotId)

\* the positions of a set of indices, ascending
ascending(idx) ==
    [k \in 1..Cardinality(idx) |-> CHOOSE i \in idx : Cardinality({j \in idx : j < i}) = k - 1]

\* the keys of map in insertion order: the course ids of the assignments whose
\* course is in the catalog, each at its first appearance
groupKeys(cs, as) ==
    ascending({i \in DOMAIN as :
                  /\ courseMapHas(cs, as[i].courseId)
                  /\ \A j \in 1..(i - 1) : as[j].courseId # as[i].courseId})

\* the sessions pushed into the group of a course, in the order of assigns
sessionsOf(as, courseId) == ascending({i \in DOMAIN as : as[i].courseId = courseId})

sortedSessions(as, sl) ==
    LET cmp(x, y) == compareSessions(x, y, sl) IN sort(as, cmp)

\* map.values() after the sessions of every group were sorted
groupsWithSessions(cs, as, sl) ==
    [k \in DOMAIN groupKeys(cs, as) |->
        [course |-> courseMapGet(cs, as[groupKeys(cs, as)[k]].courseId),
         sessions |-> sortedSessions(
             [n \in DOMAIN sessionsOf(as, as[groupKeys(cs, as)[k]].courseId) |->
                 as[sessionsOf(as, as[groupKeys(cs, as)[k]].courseId)[n]]], sl)]]

compareGroups(a, b) == localeCompare(a.course.title, b.course.title)
compareCourses(a, b) == localeCompare(a.title, b.title)

\* a filter that lets every course through
unplaced_all(cs, as) == cs

\* courses.filter((c) => !map.has(c.id))
unplaced(cs, as) ==
    [k \in DOMAIN ascending({i \in DOMAIN cs : \A j \in DOMAIN as : as[j].courseId # cs[i].id}) |->
        cs[ascending({i \in DOMAIN cs : \A j \in DOMAIN as : as[j].courseId # cs[i].id})[k]]]

noSessions(cs, as) ==
    [k \in DOMAIN unplaced(cs, as) |->
        [course |-> sort(unplaced(cs, as), compareCourses)[k], sessions |-> <<>>]]

groupCourses(cs, as, sl) ==
    sort(groupsWithSessions(cs, as, sl), compareGroups) \o noSessions(cs, as)

(***************************************************************************)
(* The exported page.  A page is a sequence of pieces: a piece of the      *)
(* template is one string holding its markup, an interpolated value is its *)
(* characters one by one.  Greek words and the dashes are named pieces.    *)
(***************************************************************************)
RECURSIVE replaceAll(_, _, _)
\* String.prototype.replaceAll(c, entity)
replaceAll(s, c, entity) ==
    IF s = <<>> THEN <<>>
    ELSE (IF Head(s) = c THEN entity ELSE <<Head(s)>>) \o replaceAll(Tail(s), c, entity)

\* an escape that leaves the ampersand alone
escapeHtml_keepAmp(s) ==
    replaceAll(replaceAll(replaceAll(replaceAll(s,
        "<", <<"&", "l", "t", ";">>),
        ">", <<"&", "g", "t", ";">>),
        "\"", <<"&", "q", "u", "o", "t", ";">>),
        "'", <<"&", "#", "0", "3", "9", ";">>)

escapeHtml(s) ==
    replaceAll(replaceAll(replaceAll(replaceAll(replaceAll(s,
        "&", <<"&", "a", "m", "p", ";">>),
        "<", <<"&", "l", "t", ";">>),
        ">", <<"&", "g", "t", ";">>),
        "\"", <<"&", "q", "u", "o", "t", ";">>),
        "'", <<"&", "#", "0", "3", "9", ";">>)

\* the bullet of the page's subtitle line
Bullet == "U+2022"
EmDash == "U+2014"
DAY_LABELS == <<"Deftera", "Triti", "Tetarti", "Pempti", "Paraskevi">>

\* DAYS.find((x) => x.key === d)?.label ?? d
dayLabel(d) ==
    IF \E i \in DOMAIN DAYS : DAYS[i] = d
    THEN <<DAY_LABELS[CHOOSE i \in DOMAIN DAYS : DAYS[i] = d]>>
    ELSE <<d>>
typeShort(t) == IF t = "THEORY" THEN "Theta" ELSE "Epsilon"
\* slots.find((s) => s.id === slotId)?.label ?? slotId
slotLabel(slotId, sl) ==
    IF \E i \in DOMAIN sl : sl[i].id = slotId
    THEN sl[CHOOSE i \in DOMAIN sl :
               sl[i].id = slotId /\ \A j \in DOMAIN sl : sl[j].id = slotId => i <= j].label
    ELSE <<slotId>>

\* a || b for strings
orElse(a, b) == IF a # <<>> THEN a ELSE b

RECURSIVE join(_)
\* Array.prototype.join("")
join(parts) == IF parts = <<>> THEN <<>> ELSE Head(parts) \o join(Tail(parts))

\* the title shown in a cell: c?.title ?? dash
cellTitle(cs, a) == IF courseMapHas(cs, a.courseId) THEN courseMapGet(cs, a.courseId).title
                    ELSE <<EmDash>>

filledCell(cs, a) ==
    <<"<td class=\"cell\"><div class=\"cellTitle\">">> \o escapeHtml(cellTitle(cs, a))
    \o <<"</div><div class=\"cellMeta\"><span class=\"badge\">", typeShort(a.classType),
         "</span><span class=\"room\">">> \o escapeHtml(orElse(a.room, <<"-">>))
    \o <<"</span></div></td>">>

tableCell(cs, as, day, slot) ==
    IF ~assignMapHas(as, day, slot.id) THEN <<"<td class=\"cell empty\"></td>">>
    ELSE filledCell(cs, assignMapGet(as, day, slot.id))

tableRow(cs, as, slot) ==
    <<"<tr><th class=\"rowHead\">">> \o escapeHtml(slot.label) \o <<"</th>">>
    \o join([d \in DOMAIN DAYS |-> tableCell(cs, as, DAYS[d], slot)])
    \o <<"</tr>">>

tableRows(cs, as, sl) == join([i \in DOMAIN sl |-> tableRow(cs, as, sl[i])])

urlPart(c) ==
    IF c.courseUrl # <<>>
    THEN <<"<a href=\"">> \o escapeHtml(c.courseUrl)
         \o <<"\" target=\"_blank\" rel=\"noreferrer\">">> \o escapeHtml(c.courseUrl) \o <<"</a>">>
    ELSE <<"<span class=\"muted\">", EmDash, "</span>">>

profPart(c) ==
    IF trim(c.defaultProfessors) # <<>> THEN escapeHtml(c.defaultProfessors) ELSE <<EmDash>>

sessionRow(c, x, sl) ==
    <<"<div class=\"sessionRow\"><span>">> \o escapeHtml(dayLabel(x.day)) \o <<" ", EmDash, " ">>
    \o escapeHtml(slotLabel(x.slotId, sl))
    \o <<"</span><span class=\"badge\">", typeShort(x.classType), "</span><span class=\"room\">">>
    \o escapeHtml(orElse(x.room, <<EmDash>>))
    \o <<"</span><span class=\"muted\">|</span><span>">>
    \o escapeHtml(orElse(x.professors, orElse(c.defaultProfessors, <<EmDash>>)))
    \o <<"</span></div>">>

sessionsHtml(g, sl) ==
    IF Len(g.sessions) = 0 THEN <<"<div class=\"liMeta muted\">[not placed in a slot]</div>">>
    ELSE join([n \in DOMAIN g.sessions |-> sessionRow(g.course, g.sessions[n], sl)])

listItem(g, sl) ==
    <<"<li class=\"li\"><div class=\"liTitle\">">> \o escapeHtml(g.course.title)
    \o <<"</div><div class=\"liMeta\"><b>[professors (default):]</b> ">> \o profPart(g.course)
    \o <<"</div><div class=\"liMeta\"><b>[course page:]</b> ">> \o urlPart(g.course)
    \o <<"</div><div class=\"liMeta\"><b>Slots:</b></div>">> \o sessionsHtml(g, sl)
    \o <<"</li>">>

listItems(cs, as, sl) ==
    join([g \in DOMAIN groupCourses(cs, as, sl) |-> listItem(groupCourses(cs, as, sl)[g], sl)])

NoEntries == "<li class=\"li\"><span class=\"muted\">[there are no entries]</span></li>"

\* a list without the placeholder
listOrPlaceholder_never(cs, as, sl) == listItems(cs, as, sl)

\* listItems || placeholder
listOrPlaceholder(cs, as, sl) ==
    IF listItems(cs, as, sl) # <<>> THEN listItems(cs, as, sl) ELSE <<NoEntries>>

htmlThemeAttr(th) == IF th = "light" THEN " data-theme=\"light\"" ELSE " data-theme=\"dark\""

buildExportHtml(cs, as, sl, th) ==
    <<"<!doctype html><html lang=\"el\"", htmlThemeAttr(th),
      "><head>[meta, title, style]</head><body><div class=\"wrap\"><h1>[weekly schedule]</h1>",
      "<div class=\"sub\">[produced:] ">> \o escapeHtml(<<"[now]">>) \o <<" ", Bullet, " Theme: ">>
    \o escapeHtml(<<th>>)
    \o <<"</div><div class=\"tableScroll\"><table><thead><tr><th></th>">>
    \o join([d \in DOMAIN DAYS |->
               <<"<th class=\"colHead\">">> \o escapeHtml(<<DAY_LABELS[d]>>) \o <<"</th>">>])
    \o <<"</tr></thead><tbody>">> \o tableRows(cs, as, sl)
    \o <<"</tbody></table></div><hr /><h1>[list of courses]</h1>",
         "<div class=\"sub\">[grouped by course (with slots)]</div><ul>">>
    \o listOrPlaceholder(cs, as, sl)
    \o <<"</ul></div></body></html>">>

(***************************************************************************)
(* Calls of the module-level functions.  A call is drawn from a bounded    *)
(* set of arguments; the action of a function evaluates it on the          *)
(* arguments of the pending call and records what it returned.             *)
(***************************************************************************)
\* longest list of slots handed to normalizeSlots
MaxSlotList == 2

SeqsUpTo(pool, n) == UNION {[1..k -> pool] : k \in 0..n}

\* slots as they may be stored: well formed with the computed label, with a label
\* of their own, with an empty label; a start that is no HH:MM; an empty id
SlotPool == {
    DEFAULT_SLOTS[1],
    [id |-> "s2", start |-> T(<<"2","3">>, <<"5","9">>), end |-> T(<<"0","0">>, <<"0","0">>),
     label |-> <<"m">>],
    [id |-> "s3", start |-> T(<<"1","0">>, <<"3","0">>), end |-> T(<<"1","1">>, <<"0","0">>),
     label |-> <<>>],
    [id |-> "s4", start |-> <<"9">>, end |-> T(<<"1","1">>, <<"0","0">>), label |-> <<"x">>],
    [id |-> "", start |-> T(<<"0","9">>, <<"0","0">>), end |-> T(<<"1","1">>, <<"0","0">>),
     label |-> <<"y">>] }

\* what JSON.parse returns for the stored registry text
NormalizeSlotsCalls ==
    {[fn |-> "normalizeSlots", raw |-> JSON_parse(JSON_stringify(Arr(list)))] :
        list \in SeqsUpTo(SlotPool, MaxSlotList)}
    \cup {[fn |-> "normalizeSlots", raw |-> NonArray], [fn |-> "normalizeSlots", raw |-> JNull]}

\* longest list of assignments handed to groupCourses
MaxSessions == 3

\* catalogs: none; three courses whose titles differ by letter and by case
GroupCatalogs == {<<>>, <<Crs("c1", <<"b">>, <<"p">>), Crs("c2", <<"a">>, <<>>),
                          Crs("c3", <<"A", "c">>, <<>>)>>}

\* registries: the defaults; two of them in the opposite order
GroupRegistries == {DEFAULT_SLOTS, <<DEFAULT_SLOTS[2], DEFAULT_SLOTS[1]>>}

\* assignments of two courses over two days and three slot ids, one of them
\* ("gone") in no registry; one on Friday; one of a course in no catalog
AssignPool ==
    {Asg(c \o "-" \o d \o "-" \o sl, c, d, sl, "THEORY", <<>>) :
        c \in {"c1", "c2"}, d \in {"Mon", "Tue"}, sl \in {"09-11", "11-13", "gone"}}
    \cup {Asg("c1-Fri-09-11", "c1", "Fri", "09-11", "LAB", <<"r">>),
          Asg("ghost-Mon-09-11", Ghost, "Mon", "09-11", "THEORY", <<>>)}

GroupCoursesCalls ==
    {[fn |-> "groupCourses", courses |-> cs, assigns |-> as, slots |-> sl] :
        cs \in GroupCatalogs, as \in SeqsUpTo(AssignPool, MaxSessions), sl \in GroupRegistries}

\* longest string handed to escapeHtml
MaxEscapeLen == 3

\* the five characters escapeHtml replaces, a letter, and the end of an entity
EscapeAlphabet == {"&", "<", ">", "\"", "'", "a", ";"}

\* every short string over the alphabet; an entity; a tag
EscapeHtmlCalls ==
    {[fn |-> "escapeHtml", s |-> s] : s \in SeqsUpTo(EscapeAlphabet, MaxEscapeLen)}
    \cup {[fn |-> "escapeHtml", s |-> <<"&", "l", "t", ";">>],
          [fn |-> "escapeHtml", s |-> <<"<", "s", "c", "r", "i", "p", "t", ">">>]}

\* longest list of assignments handed to buildExportHtml
MaxExportCells == 2

\* catalogs: none; a course whose title is a tag and whose other fields hold an
\* ampersand and a quote, with a course that has neither professors nor a page
ExportCatalogs == {<<>>,
    <<[id |-> "c1", title |-> <<"<", "s", "c", "r", "i", "p", "t", ">">>,
       defaultProfessors |-> <<"&">>, courseUrl |-> <<"\"", "u">>, createdAt |-> 0],
      Crs("c2", <<"a">>, <<" ">>)>>}

\* a registry with a slot whose label is a tag
ExportRegistries == {DEFAULT_SLOTS,
    <<[id |-> "s2", start |-> T(<<"0","8">>, <<"0","0">>), end |-> T(<<"0","9">>, <<"0","0">>),
       label |-> <<"<", "b", ">">>], DEFAULT_SLOTS[1]>>}

\* assignments with a quote for a room and an angle bracket for professors; without
\* either; of a course in no catalog on a slot in no registry
ExportAssignPool == {
    [Asg("a1", "c1", "Mon", "09-11", "LAB", <<"'">>) EXCEPT !.professors = <<"<">>],
    Asg("a2", "c2", "Tue", "s2", "THEORY", <<>>),
    Asg("a3", Ghost, "Mon", "gone", "THEORY", <<"&">>) }

BuildExportHtmlCalls ==
    {[fn |-> "buildExportHtml", courses |-> cs, assigns |-> as, slots |-> sl, theme |-> th] :
        cs \in ExportCatalogs, as \in SeqsUpTo(ExportAssignPool, MaxExportCells),
        sl \in ExportRegistries, th \in {"light", "dark"}}

Returns(v) ==
    /\ ~result.done
    /\ result' = [done |-> TRUE, val |-> v]
    /\ UNCHANGED <<storage, phase, slots, showSlotsSetup, courses, assigns, selectedCell,
                   selectedCourseId, courseForm, slotEdit, theme, clock, scanned, loadLog,
                   steps, stepBound, last, call>>

callNormalizeSlots ==
    /\ call.fn = "normalizeSlots"
    /\ Returns(normalizeSlots(call.raw))

callGroupCourses ==
    /\ call.fn = "groupCourses"
    /\ Returns(groupCourses(call.courses, call.assigns, call.slots))

callEscapeHtml ==
    /\ call.fn = "escapeHtml"
    /\ Returns(escapeHtml(call.s))

callBuildExportHtml ==
    /\ call.fn = "buildExportHtml"
    /\ Returns(buildExportHtml(call.courses, call.assigns, call.slots, call.theme))

FnCalls == NormalizeSlotsCalls \cup GroupCoursesCalls \cup EscapeHtmlCalls
           \cup BuildExportHtmlCalls

FnInit ==
    /\ phase = "boot"
    /\ slots = <<>>
    /\ showSlotsSetup = FALSE
    /\ courses = Arr(<<>>)
    /\ assigns = Arr(<<>>)
    /\ selectedCell = [day |-> "Mon", slotId |-> ""]
    /\ selectedCourseId = ""
    /\ courseForm = blankCourseForm
    /\ slotEdit = blankSlotEdit
    /\ theme = "dark"
    /\ clock = 1
    /\ scanned = <<>>
    /\ loadLog = <<>>
    /\ steps = 0
    /\ stepBound = MaxSteps
    /\ last = [op |-> "none", prompt |-> "none", id |-> "", dir |-> 0]
    /\ storage = mkStorage(Absent, <<Absent, Absent>>, Absent, Absent, Absent)
    /\ call \in FnCalls
    /\ result = [done |-> FALSE]

FnNext ==
    \/ callNormalizeSlots
    \/ callGroupCourses
    \/ callEscapeHtml
    \/ callBuildExportHtml

\* one call of one function
FnSpec == FnInit /\ [][FnNext]_vars

(***************************************************************************)
(* The application with its export                                         *)
(***************************************************************************)
\* the "download HTML" button of the main screen: buildExportHtml on the current
\* state; the page goes into the downloaded file
downloadExportHtml ==
    /\ ~showSlotsSetup
    /\ phase = "running"
    /\ steps < stepBound
    /\ phase' = phase
    /\ steps' = steps + 1
    /\ last' = [op |-> "downloadExportHtml", prompt |-> "none", id |-> "", dir |-> 0]
    /\ call' = [fn |-> "buildExportHtml", courses |-> courses.items, assigns |-> assigns.items,
                slots |-> slots, theme |-> theme]
    /\ result' = [done |-> TRUE,
                  val |-> buildExportHtml(courses.items, assigns.items, slots, theme)]
    /\ UNCHANGED <<storage, slots, showSlotsSetup, courses, assigns, selectedCell,
                   selectedCourseId, courseForm, slotEdit, theme, clock, scanned, loadLog,
                   stepBound>>

ExportNext == Next \/ downloadExportHtml

\* the application with its export
ExportSpec == Init /\ [][ExportNext]_vars

(***************************************************************************)
(* The application on a storage that fails.  The storage is unavailable,   *)
(* and every access throws, localStorage.getItem first; or it is full, and *)
(* localStorage.setItem throws at some call of the step, the calls before  *)
(* it having stored their texts.  An exception that leaves the useState    *)
(* initializer fails the first render; one that leaves an effect is        *)
(* uncaught in the commit, the effects after it do not run, and React      *)
(* unmounts the tree.  Either way the page is gone.                        *)
(***************************************************************************)
Threw(fn) ==
    /\ call' = [fn |-> fn]
    /\ result' = [done |-> TRUE, threw |-> TRUE]

RECURSIVE setItems(_, _)
\* the calls localStorage.setItem(ws[i][1], ws[i][2]), one after the other
setItems(st, ws) ==
    IF ws = <<>> THEN st ELSE setItems(setItem(st, ws[1][1], ws[1][2]), Tail(ws))

\* the calls of setItem a startup makes, in order: the two of the initializer after
\* a migration, then the four effects after the first render
startupWrites(init) ==
    (IF init.migrated
     THEN << <<COURSES_KEY, JSON_stringify(init.courses)>>,
             <<ASSIGN_KEY, JSON_stringify(init.assigns)>> >>
     ELSE <<>>)
    \o << <<SLOTS_KEY, JSON_stringify(Arr(init.slots))>>,
          <<COURSES_KEY, JSON_stringify(init.courses)>>,
          <<ASSIGN_KEY, JSON_stringify(init.assigns)>>,
          <<THEME_KEY, Plain(init.theme)>> >>

\* the calls of setItem after a handler, for the keys ks of the collections its
\* setters gave a new array, in the order of the effects
effectWrites(ks, s1, cs1, as1) ==
    [i \in DOMAIN ks |->
        <<ks[i], IF ks[i] = SLOTS_KEY THEN JSON_stringify(Arr(s1))
                 ELSE IF ks[i] = COURSES_KEY THEN JSON_stringify(Arr(cs1))
                 ELSE JSON_stringify(Arr(as1))>>]

\* startup when every getItem throws: loadSlotsFromStorage catches and returns the
\* defaults, loadTheme has no handler and the initializer ends with its exception
\* before any hook holds a value
LoadUnavailable ==
    /\ phase = "boot"
    /\ Len(loadLog) < MaxLoads
    /\ phase' = "crashed"
    /\ last' = [op |-> "load", prompt |-> "none", id |-> "", dir |-> 0]
    /\ Threw("localStorage.getItem")
    /\ UNCHANGED <<storage, slots, showSlotsSetup, courses, assigns, selectedCell,
                   selectedCourseId, courseForm, slotEdit, theme, clock, scanned, loadLog,
                   steps, stepBound>>

\* startup when reads work and the n-th setItem throws, the calls before it having
\* stored their texts.  In the initializer, which makes the first two calls after
\* a migration: the legacy keys are read and the identifiers drawn, and no hook
\* holds a value.  In an effect: every useState is initialised, the first render
\* is done, and the effects of the selection do not act.  (A first render that
\* throws never reaches an effect.)
LoadQuotaExceeded(n) ==
    /\ phase = "boot"
    /\ Len(loadLog) < MaxLoads
    /\ LET init == initState(storage, clock)
           inInitializer == init.migrated /\ n <= 2
       IN /\ n \in DOMAIN startupWrites(init)
          /\ inInitializer \/ renders(init.courses, init.assigns)
          /\ storage' = setItems(storage, SubSeq(startupWrites(init), 1, n - 1))
          /\ clock' = init.clock
          /\ scanned' = init.read
          /\ IF inInitializer
             THEN UNCHANGED <<slots, showSlotsSetup, courses, assigns, selectedCell, theme>>
             ELSE /\ slots' = init.slots
                  /\ showSlotsSetup' = init.showSetup
                  /\ courses' = init.courses
                  /\ assigns' = init.assigns
                  /\ selectedCell' = firstCell(init)
                  /\ theme' = init.theme
    /\ phase' = "crashed"
    /\ last' = [op |-> "load", prompt |-> "none", id |-> "", dir |-> 0]
    /\ Threw("localStorage.setItem")
    /\ UNCHANGED <<selectedCourseId, courseForm, slotEdit, loadLog, steps, stepBound>>

\* a handler whose setters gave the collections of the keys ks a new array, when
\* the n-th setItem of the step throws: the update is rendered, the persist effects
\* before the n-th store their texts, the n-th throws, the effects after it do not
\* run, and React unmounts the tree
Thrown(name, prompt, id, dir, s1, cs1, as1, ks, n) ==
    /\ phase = "running"
    /\ steps < stepBound
    /\ n \in DOMAIN ks
    /\ phase' = "crashed"
    /\ steps' = steps + 1
    /\ last' = [op |-> name, prompt |-> prompt, id |-> id, dir |-> dir]
    /\ slots' = s1
    /\ courses' = Arr(cs1)
    /\ assigns' = Arr(as1)
    /\ storage' = setItems(storage, SubSeq(effectWrites(ks, s1, cs1, as1), 1, n - 1))
    /\ Threw("localStorage.setItem")
    /\ UNCHANGED <<showSlotsSetup, selectedCell, slotEdit, theme, scanned, loadLog,
                   stepBound>>

addSlotQuotaExceeded ==
    /\ showSlotsSetup
    /\ Thrown("addSlot", "none", "", 0, Append(slots, newSlot(uid(clock))), courses.items,
              assigns.items, <<SLOTS_KEY>>, 1)
    /\ clock' = clock + 1
    /\ UNCHANGED <<selectedCourseId, courseForm>>

\* prev.map gives a new array whatever was typed
updateSlotStartQuotaExceeded(i, v) ==
    /\ showSlotsSetup
    /\ i \in DOMAIN slots
    /\ LET s == slots[i]
           nextLabel == IF isHHMM(v) /\ isHHMM(s.end) THEN recomputeLabel(v, s.end) ELSE s.label
       IN Thrown("updateSlot", "none", "", 0, patchStart(slots, s.id, v, nextLabel),
                 courses.items, assigns.items, <<SLOTS_KEY>>, 1)
    /\ UNCHANGED <<selectedCourseId, courseForm, clock>>

updateSlotEndQuotaExceeded(i, v) ==
    /\ showSlotsSetup
    /\ i \in DOMAIN slots
    /\ LET s == slots[i]
           nextLabel == IF isHHMM(s.start) /\ isHHMM(v) THEN recomputeLabel(s.start, v) ELSE s.label
       IN Thrown("updateSlot", "none", "", 0, patchEnd(slots, s.id, v, nextLabel),
                 courses.items, assigns.items, <<SLOTS_KEY>>, 1)
    /\ UNCHANGED <<selectedCourseId, courseForm, clock>>

\* the updater returns prev, and no effect runs, unless the slot is found and has a
\* neighbour on that side
moveSlotQuotaExceeded(id, dir) ==
    /\ showSlotsSetup
    /\ findIndex(slots, id) >= 1
    /\ findIndex(slots, id) + dir \in DOMAIN slots
    /\ Thrown("moveSlot", "none", id, dir, movedSlots(slots, id, dir), courses.items,
              assigns.items, <<SLOTS_KEY>>, 1)
    /\ UNCHANGED <<selectedCourseId, courseForm, clock>>

\* after the confirmation both filters give new arrays, whatever the id: the effect
\* of the slots runs, then that of the assignments
deleteSlotQuotaExceeded(id, n) ==
    /\ showSlotsSetup
    /\ Thrown("deleteSlot", "yes", id, 0, slotsWithout(slots, id), courses.items,
              assignsOffSlot(assigns.items, id), <<SLOTS_KEY, ASSIGN_KEY>>, n)
    /\ UNCHANGED <<selectedCourseId, courseForm, clock>>

\* setSlots(DEFAULT_SLOTS), then the filter of the assignments.  (When slots is
\* DEFAULT_SLOTS itself the effect of the slots does not run; the text it would
\* store is the one the key holds, so the states are the same.)
resetToDefaultsQuotaExceeded(n) ==
    /\ showSlotsSetup
    /\ Thrown("resetToDefaults", "yes", "", 0, DEFAULT_SLOTS, courses.items,
              assignsOnDefaults(assigns.items), <<SLOTS_KEY, ASSIGN_KEY>>, n)
    /\ UNCHANGED <<selectedCourseId, courseForm, clock>>

upsertCourseQuotaExceeded ==
    /\ ~showSlotsSetup
    /\ LET title == trim(courseForm.title)
       IN /\ title # <<>>
          /\ ~existsSameTitle(courses.items, title, courseForm.id)
          /\ IF courseForm.id # ""
             THEN /\ Thrown("upsertCourse", "none", "", 0, slots,
                            editedCourses(courses.items, courseForm, title), assigns.items,
                            <<COURSES_KEY>>, 1)
                  /\ UNCHANGED <<selectedCourseId, courseForm, clock>>
             ELSE /\ Thrown("upsertCourse", "none", "", 0, slots,
                            Append(courses.items, addedCourse(courseForm, title, clock)),
                            assigns.items, <<COURSES_KEY>>, 1)
                  /\ selectedCourseId' = uid(clock)
                  /\ courseForm' = blankCourseForm
                  /\ clock' = clock + 1

\* the effect of the courses runs, then that of the assignments
deleteCourseQuotaExceeded(courseId, n) ==
    /\ ~showSlotsSetup
    /\ courseMapHas(courses.items, courseId)
    /\ Thrown("deleteCourse", "yes", courseId, 0, slots, coursesWithout(courses.items, courseId),
              assignsOffCourse(assigns.items, courseId), <<COURSES_KEY, ASSIGN_KEY>>, n)
    /\ selectedCourseId' = IF selectedCourseId = courseId THEN "" ELSE selectedCourseId
    /\ courseForm' = IF courseForm.id = courseId THEN blankCourseForm ELSE courseForm
    /\ UNCHANGED clock

clearAllCoursesAndSlotsQuotaExceeded(n) ==
    /\ ~showSlotsSetup
    /\ Thrown("clearAllCoursesAndSlots", "yes", "", 0, slots, <<>>, <<>>,
              <<COURSES_KEY, ASSIGN_KEY>>, n)
    /\ selectedCourseId' = ""
    /\ courseForm' = blankCourseForm
    /\ UNCHANGED clock

placeSelectedCourseToCellQuotaExceeded ==
    /\ ~showSlotsSetup
    /\ selectedCourseId # ""
    /\ courseMapHas(courses.items, selectedCourseId)
    /\ IF existingAt(assigns.items, selectedCell)
       THEN /\ Thrown("placeSelectedCourseToCell", "yes", "", 0, slots, courses.items,
                      retargeted(assigns.items,
                          assignMapGet(assigns.items, selectedCell.day, selectedCell.slotId).id,
                          selectedCourseId),
                      <<ASSIGN_KEY>>, 1)
            /\ UNCHANGED <<selectedCourseId, courseForm, clock>>
       ELSE /\ Thrown("placeSelectedCourseToCell", "none", "", 0, slots, courses.items,
                      Append(assigns.items,
                             placedAssignment(courseMapGet(courses.items, selectedCourseId),
                                              selectedCell, clock)),
                      <<ASSIGN_KEY>>, 1)
            /\ clock' = clock + 1
            /\ UNCHANGED <<selectedCourseId, courseForm>>

removeAssignmentFromCellQuotaExceeded ==
    /\ ~showSlotsSetup
    /\ existingAt(assigns.items, selectedCell)
    /\ Thrown("removeAssignmentFromCell", "yes", "", 0, slots, courses.items,
              assignsWithout(assigns.items,
                  assignMapGet(assigns.items, selectedCell.day, selectedCell.slotId).id),
              <<ASSIGN_KEY>>, 1)
    /\ UNCHANGED <<selectedCourseId, courseForm, clock>>

saveSlotEditsQuotaExceeded ==
    /\ ~showSlotsSetup
    /\ existingAt(assigns.items, selectedCell)
    /\ Thrown("saveSlotEdits", "none", "", 0, slots, courses.items,
              editedAssigns(assigns.items,
                  assignMapGet(assigns.items, selectedCell.day, selectedCell.slotId).id,
                  slotEdit),
              <<ASSIGN_KEY>>, 1)
    /\ UNCHANGED <<selectedCourseId, courseForm, clock>>

\* the effect of the theme, the only one that runs, throws
toggleThemeQuotaExceeded ==
    /\ phase = "running"
    /\ steps < stepBound
    /\ phase' = "crashed"
    /\ steps' = steps + 1
    /\ last' = [op |-> "toggleTheme", prompt |-> "none", id |-> "", dir |-> 0]
    /\ theme' = IF theme = "dark" THEN "light" ELSE "dark"
    /\ Threw("localStorage.setItem")
    /\ UNCHANGED <<storage, slots, showSlotsSetup, courses, assigns, selectedCell,
                   selectedCourseId, courseForm, slotEdit, clock, scanned, loadLog, stepBound>>

\* the operations of the application, the startup and each handler that stores
\* something also with the storage failing under it, at any of the step's writes
FailNext ==
    \/ Next
    \/ LoadUnavailable
    \/ \E n \in 1..6 : LoadQuotaExceeded(n)
    \/ addSlotQuotaExceeded
    \/ \E i \in DOMAIN slots, v \in TimeInputs : updateSlotStartQuotaExceeded(i, v)
    \/ \E i \in DOMAIN slots, v \in TimeInputs : updateSlotEndQuotaExceeded(i, v)
    \/ \E id \in slotIds, dir \in {-1, 1} : moveSlotQuotaExceeded(id, dir)
    \/ \E id \in slotIds \cup {Ghost}, n \in 1..2 : deleteSlotQuotaExceeded(id, n)
    \/ \E n \in 1..2 : resetToDefaultsQuotaExceeded(n)
    \/ upsertCourseQuotaExceeded
    \/ \E id \in courseIds, n \in 1..2 : deleteCourseQuotaExceeded(id, n)
    \/ \E n \in 1..2 : clearAllCoursesAndSlotsQuotaExceeded(n)
    \/ placeSelectedCourseToCellQuotaExceeded
    \/ removeAssignmentFromCellQuotaExceeded
    \/ saveSlotEditsQuotaExceeded
    \/ toggleThemeQuotaExceeded

\* the application with a storage that is unavailable, or that is full at any of
\* its writes
FailSpec == Init /\ [][FailNext]_vars

(***************************************************************************)
(* Properties                                                              *)
(***************************************************************************)
WeekDays == {"Mon", "Tue", "Wed", "Thu", "Fri"}
ClassTypes == {"THEORY", "LAB"}
NormalizedKeys == {"uni-schedule:slots:v1", "uni-schedule:courses:v1", "uni-schedule:assignments:v1"}
CatalogKey == "uni-schedule:courses:v1"
AssignmentsKey == "uni-schedule:assignments:v1"
RegistryKey == "uni-schedule:slots:v1"
KeyOrder == <<"uni-schedule:v3", "uni-schedule:v2", "uni-schedule:v1">>

MinOf(set) == CHOOSE x \in set : \A y \in set : x <= y

\* no two assignments of the list share (day, slotId)
CellUnique(as) ==
    \A i, j \in DOMAIN as : i # j => ~(as[i].day = as[j].day /\ as[i].slotId = as[j].slotId)

\* a stored text is present and parses
Parses(text) == text.kind = "json"

\* the slot identifier of a legacy entry: field slotId, or else field slot
SlotIdentifier(x) ==
    IF x.slotId.t = "string" THEN x.slotId.v ELSE IF x.slot.t = "string" THEN x.slot.v ELSE ""

\* a legacy entry with a non-empty trimmed title, a weekday and a slot identifier
EntryOk(x) ==
    /\ x.t = "object"
    /\ x.title.t = "string" /\ trim(x.title.v) # <<>>
    /\ x.day.t = "string" /\ x.day.v \in WeekDays
    /\ SlotIdentifier(x) # ""

InRegistry(slotId, slts) == \E i \in DOMAIN slts : slts[i].id = slotId

\* the text parses as an array and yields at least one course or assignment
Qualifies(text) ==
    /\ Parses(text) /\ text.val.type = "array"
    /\ \E j \in DOMAIN text.val.items : EntryOk(text.val.items[j])

\* the entries of the legacy array a migrating load took its result from
WinningEntries(L) == L.before[L.read[Len(L.read)]].val.items

\* the assignments in memory occupy pairwise different cells
CellsDistinct == CellUnique(assigns.items)

\* C1: a user operation on a state with cell uniqueness leaves cell uniqueness:
\* no two assignments share (day, slotId) afterwards
C1_CellUniquenessKept ==
    [][(phase = "running" /\ CellsDistinct) => CellsDistinct']_assigns

\* placeSelectedCourseToCell has just added an assignment beside another one
C1_Witness ==
    /\ last.op = "placeSelectedCourseToCell"
    /\ Len(assigns.items) >= 2
    /\ assigns.items[Len(assigns.items)].id = uid(clock - 1)
    /\ CellUnique(assigns.items)

\* C2: after a load that migrated, every later load yields the same courses and
\* assignments and leaves the same texts under the two normalized keys
C2_MigrationIdempotent ==
    \A i \in DOMAIN loadLog :
        (i >= 2 /\ loadLog[1].migrated) =>
            /\ loadLog[i].courses = loadLog[1].courses
            /\ loadLog[i].assigns = loadLog[1].assigns
            /\ loadLog[i].after[CatalogKey] = loadLog[1].after[CatalogKey]
            /\ loadLog[i].after[AssignmentsKey] = loadLog[1].after[AssignmentsKey]

\* a second load after a first one that migrated at least one assignment
C2_Witness ==
    /\ Len(loadLog) >= 2
    /\ loadLog[1].migrated
    /\ Len(loadLog[1].assigns.items) >= 1
    /\ phase = "running"

\* C3: no step changes the text stored under a legacy key
C3_LegacyKeysReadOnly ==
    [][\A k \in Range(KeyOrder) : storage'[k] = storage[k]]_storage

\* a migration happened, a later mutation was persisted, the legacy text is still there
C3_Witness ==
    /\ steps >= 1
    /\ Len(loadLog) = 1
    /\ loadLog[1].migrated
    /\ storage[CatalogKey] # loadLog[1].after[CatalogKey]
    /\ \E k \in Range(KeyOrder) : storage[k].kind = "json"

\* C4 as stated: the stored catalog and assignments are used, and no legacy key is
\* read, exactly when all three normalized keys are present and parse
C4_ThreeKeysDecide ==
    \A i \in DOMAIN loadLog :
        LET L == loadLog[i]
        IN (\A k \in NormalizedKeys : Parses(L.before[k])) <=> L.read = <<>>

\* C4 amended: the stored catalog and assignments are used, and no legacy key is
\* read, exactly when the course and assignment keys are present and parse; in
\* every other case the legacy keys are read, newest first
C4_TwoKeysDecide ==
    \A i \in DOMAIN loadLog :
        LET L == loadLog[i]
        IN IF Parses(L.before[CatalogKey]) /\ Parses(L.before[AssignmentsKey])
           THEN /\ L.read = <<>>
                /\ ~L.migrated
                /\ L.courses = L.before[CatalogKey].val
                /\ L.assigns = L.before[AssignmentsKey].val
           ELSE /\ L.read # <<>>
                /\ L.read[1] = KeyOrder[1]

\* the stored catalog was used with no slot-registry text to parse
C4_Witness ==
    /\ Len(loadLog) >= 1
    /\ ~Parses(loadLog[1].before[RegistryKey])
    /\ loadLog[1].read = <<>>
    /\ phase = "running"
    /\ Len(courses.items) >= 1

\* the storage with every legacy key but the k-th removed
OnlyKey(st, k) ==
    [key \in DOMAIN st |->
        IF key \in Range(KeyOrder) /\ key # KeyOrder[k] THEN Absent ELSE st[key]]

\* C5: a load that scans reads v3, v2, v1 in this order up to the first key whose
\* text parses as an array and yields something; its result is what that key
\* alone gives, and it is under the normalized keys when the initializer returns;
\* with no such key all three are read and the result is empty
C5_FirstQualifyingKeyWins ==
    \A i \in DOMAIN loadLog :
        LET L == loadLog[i]
            Q == {k \in 1..3 : Qualifies(L.before[KeyOrder[k]])}
        IN L.read # <<>> =>
            IF Q = {}
            THEN /\ L.read = KeyOrder
                 /\ ~L.migrated
                 /\ L.courses = Arr(<<>>) /\ L.assigns = Arr(<<>>)
            ELSE LET alone == tryMigrateLegacyToNew(OnlyKey(L.before, MinOf(Q)), L.slots, L.clock0)
                 IN /\ L.read = SubSeq(KeyOrder, 1, MinOf(Q))
                    /\ L.migrated
                    /\ L.courses = Arr(alone.courses)
                    /\ L.assigns = Arr(alone.assigns)
                    /\ L.wrote[CatalogKey] = JSON_stringify(L.courses)
                    /\ L.wrote[AssignmentsKey] = JSON_stringify(L.assigns)

\* v3 held a text that was skipped and the result came from the last key
C5_Witness ==
    /\ Len(loadLog) >= 1
    /\ loadLog[1].migrated
    /\ loadLog[1].read = KeyOrder
    /\ loadLog[1].before[KeyOrder[1]].kind = "json"
    /\ loadLog[1].before[KeyOrder[2]].kind = "json"

\* the entries of a legacy array that C6 says give an assignment, in order
Placeable(data, slts) ==
    LET Test(x) == EntryOk(x) /\ InRegistry(SlotIdentifier(x), slts)
    IN SelectSeq(data, Test)

\* C6: the assignments of a migrating load are, in order, one per entry with a
\* title, a weekday and a slot identifier of the registry, each on that entry's
\* day and slot and with the id of the one course of the entry's trimmed title
C6_OneAssignmentPerPlaceableEntry ==
    \A i \in DOMAIN loadLog :
        LET L == loadLog[i]
        IN L.migrated =>
            LET good == Placeable(WinningEntries(L), L.slots)
                as == L.assigns.items
                cs == L.courses.items
            IN /\ Len(as) = Len(good)
               /\ \A j \in DOMAIN good :
                    /\ as[j].day = good[j].day.v
                    /\ as[j].slotId = SlotIdentifier(good[j])
                    /\ \E c \in DOMAIN cs :
                          /\ cs[c].title = trim(good[j].title.v)
                          /\ cs[c].id = as[j].courseId
                          /\ \A d \in DOMAIN cs : cs[d].title = cs[c].title => d = c

\* of two legacy entries one gave an assignment through the old field slot and
\* the other gave none
C6_Witness ==
    /\ Len(loadLog) >= 1
    /\ loadLog[1].migrated
    /\ Len(WinningEntries(loadLog[1])) = 2
    /\ Len(loadLog[1].assigns.items) = 1
    /\ \E j \in 1..2 : /\ WinningEntries(loadLog[1])[j].slotId.t # "string"
                       /\ EntryOk(WinningEntries(loadLog[1])[j])

\* the first non-empty value of a text field among the entries of one trimmed title
FirstNonEmpty(data, title, Field(_)) ==
    LET idx == {j \in DOMAIN data :
                    /\ EntryOk(data[j]) /\ trim(data[j].title.v) = title
                    /\ Field(data[j]).t = "string" /\ Field(data[j]).v # <<>>}
    IN IF idx = {} THEN <<>> ELSE Field(data[MinOf(idx)]).v

\* C7: every synthesized course has the first non-empty professors and the first
\* non-empty courseUrl among the entries of its title
C7_FirstNonEmptyDefaults ==
    \A i \in DOMAIN loadLog :
        LET L == loadLog[i]
            Professors(x) == x.professors
            CourseUrl(x) == x.courseUrl
        IN L.migrated =>
            \A c \in DOMAIN L.courses.items :
                /\ L.courses.items[c].defaultProfessors =
                       FirstNonEmpty(WinningEntries(L), L.courses.items[c].title, Professors)
                /\ L.courses.items[c].courseUrl =
                       FirstNonEmpty(WinningEntries(L), L.courses.items[c].title, CourseUrl)

\* C8: right after a startup load no two assignments in memory share a cell
C8_LoadedCellsUnique ==
    (last.op = "load" /\ isArray(assigns)) => CellUnique(assigns.items)

\* C9: right after a startup load courses and assignments are arrays of records
\* that pass the shape check
C9_LoadedRecordsValid ==
    last.op = "load" =>
        /\ isArray(courses) /\ isArray(assigns)
        /\ \A c \in DOMAIN courses.items : courses.items[c].title # <<>>
        /\ \A a \in DOMAIN assigns.items :
              /\ assigns.items[a].day \in WeekDays
              /\ assigns.items[a].classType \in ClassTypes

\* C10: in a running application course titles are non-empty and pairwise
\* different after trimming and lower-casing
C10_TitlesUnique ==
    phase = "running" =>
        /\ \A c \in DOMAIN courses.items : trim(courses.items[c].title) # <<>>
        /\ \A c, d \in DOMAIN courses.items :
              c # d => toLowerCase(trim(courses.items[c].title))
                       # toLowerCase(trim(courses.items[d].title))

\* the form's title, trimmed and lower-cased, and the same for a stored course
FormTitleKey == toLowerCase(trim(courseForm.title))
TitleKey(c) == toLowerCase(trim(c.title))

\* the form's title is empty, or another course than the edited one has it
FormInvalid ==
    \/ trim(courseForm.title) = <<>>
    \/ \E i \in DOMAIN courses.items :
          courses.items[i].id # courseForm.id /\ TitleKey(courses.items[i]) = FormTitleKey

\* the form edits a course of the catalog and no other course has the form's title
FormKeepsOwnTitle ==
    /\ trim(courseForm.title) # <<>>
    /\ \E i \in DOMAIN courses.items :
          courses.items[i].id = courseForm.id /\ TitleKey(courses.items[i]) = FormTitleKey
    /\ ~FormInvalid

\* every course with the form's id carries the given title
EditedTitleIs(title) ==
    \A i \in DOMAIN courses.items :
        courses.items[i].id = courseForm.id => courses.items[i].title = title

\* C11: upsertCourse with an empty trimmed title, or with the trimmed title of
\* another course in any letter case, reports an error and leaves courses,
\* assignments, slots and storage as they were; an edit that keeps the course's own
\* title in any letter case is accepted and stores the trimmed title
C11_UpsertRejectsInvalid ==
    [][last'.op = "upsertCourse" =>
          /\ FormInvalid =>
                /\ last'.prompt = "alert"
                /\ UNCHANGED <<courses, assigns, slots, storage>>
          /\ FormKeepsOwnTitle =>
                /\ last'.prompt = "none"
                /\ \E t \in {trim(courseForm.title)} : EditedTitleIs(t)'
                /\ Len(courses'.items) = Len(courses.items)]_steps

\* upsertCourse has just refused a title that another course has in another letter case
C11_Witness ==
    /\ last.op = "upsertCourse"
    /\ last.prompt = "alert"
    /\ trim(courseForm.title) # <<>>
    /\ \E i \in DOMAIN courses.items :
          /\ courses.items[i].id # courseForm.id
          /\ TitleKey(courses.items[i]) = FormTitleKey
          /\ trim(courses.items[i].title) # trim(courseForm.title)

MaxOf(set) == CHOOSE x \in set : \A y \in set : y <= x

\* the positions of the assignments in the selected cell
Occupants ==
    {i \in DOMAIN assigns.items :
        /\ assigns.items[i].day = selectedCell.day
        /\ assigns.items[i].slotId = selectedCell.slotId}

\* the assignment list is the given one
AssignsAre(as) == assigns.items = as

\* C12: a confirmed placement into an occupied cell changes the courseId of the
\* assignment shown in that cell to the selected course and nothing else: same
\* number of assignments, every other field and every other assignment as before
C12_OverwriteChangesCourseOnly ==
    [][(last'.op = "placeSelectedCourseToCell" /\ last'.prompt = "yes") =>
          /\ Occupants # {}
          /\ \E as \in {[i \in DOMAIN assigns.items |->
                            IF i = MaxOf(Occupants)
                            THEN [assigns.items[i] EXCEPT !.courseId = selectedCourseId]
                            ELSE assigns.items[i]]} : AssignsAre(as)']_steps

\* an occupant with a room and class type LAB has just been given another course,
\* beside a second assignment
C12_Witness ==
    /\ last.op = "placeSelectedCourseToCell"
    /\ last.prompt = "yes"
    /\ Len(assigns.items) >= 2
    /\ \E i \in Occupants :
          /\ assigns.items[i].courseId = selectedCourseId
          /\ assigns.items[i].room # <<>>
          /\ assigns.items[i].classType = "LAB"
          /\ storage[AssignmentsKey].val = assigns

\* the selected course is in the catalog
SelectedCourseExists ==
    selectedCourseId # "" /\ \E i \in DOMAIN courses.items : courses.items[i].id = selectedCourseId

\* the list is the given list followed by one assignment of the given course in
\* the given cell, with class type THEORY, no room and the given professors
OnePlacedAfter(as, courseId, cell, professors) ==
    /\ Len(assigns.items) = Len(as) + 1
    /\ SubSeq(assigns.items, 1, Len(as)) = as
    /\ LET a == assigns.items[Len(as) + 1]
       IN /\ a.courseId = courseId
          /\ a.day = cell.day /\ a.slotId = cell.slotId
          /\ a.classType = "THEORY"
          /\ a.room = <<>>
          /\ a.professors = professors

\* C13: placing a selected course of the catalog into an empty cell appends one
\* assignment there (that course, THEORY, no room, the course's default
\* professors) and leaves the other assignments, the catalog and the registry as
\* they were; with no selected course, or one not in the catalog, nothing changes
C13_PlaceIntoEmptyCell ==
    [][last'.op = "placeSelectedCourseToCell" =>
          /\ (SelectedCourseExists /\ Occupants = {}) =>
                /\ \E i \in DOMAIN courses.items, as \in {assigns.items}, cell \in {selectedCell} :
                      /\ courses.items[i].id = selectedCourseId
                      /\ OnePlacedAfter(as, courses.items[i].id, cell,
                                        courses.items[i].defaultProfessors)'
                /\ UNCHANGED <<courses, slots>>
          /\ ~SelectedCourseExists => UNCHANGED <<assigns, courses, slots, storage>>]_steps

\* a course with default professors has just been placed beside another assignment
C13_Witness ==
    /\ last.op = "placeSelectedCourseToCell"
    /\ last.prompt = "none"
    /\ Len(assigns.items) >= 2
    /\ LET a == assigns.items[Len(assigns.items)]
       IN /\ a.id = uid(clock - 1)
          /\ a.professors # <<>>
          /\ a.courseId = selectedCourseId
          /\ a.day = selectedCell.day /\ a.slotId = selectedCell.slotId

\* the operations that remove or overwrite records
Destructive ==
    {"deleteSlot", "deleteCourse", "resetToDefaults", "clearAllCoursesAndSlots",
     "removeAssignmentFromCell", "placeSelectedCourseToCell"}

\* the assignment list starts with the given list
AssignsExtend(as) ==
    Len(assigns.items) >= Len(as) /\ SubSeq(assigns.items, 1, Len(as)) = as

\* C14: a destructive operation whose prompt is declined leaves slots, courses,
\* assignments and storage as they were, and a destructive operation that was not
\* confirmed removes and overwrites nothing (the only change without a prompt is
\* the placement that appends to the assignment list)
C14_NoLossWithoutConfirmation ==
    [][last'.op \in Destructive =>
          /\ last'.prompt = "no" => UNCHANGED <<slots, courses, assigns, storage>>
          /\ last'.prompt # "yes" =>
                /\ UNCHANGED <<slots, courses>>
                /\ \E as \in {assigns.items} : AssignsExtend(as)'
                /\ last'.op # "placeSelectedCourseToCell" => UNCHANGED assigns]_steps

\* the deletion of a slot that holds an assignment has just been declined
C14_Witness ==
    /\ last.op = "deleteSlot"
    /\ last.prompt = "no"
    /\ \E i \in DOMAIN slots : slots[i].id = last.id
    /\ \E a \in DOMAIN assigns.items : assigns.items[a].slotId = last.id

\* the catalog is the given list
CoursesAre(cs) == courses.items = cs

\* the given list without the records whose field is the given id
WithoutCourseId(as, id) == LET Keep(a) == a.courseId # id IN SelectSeq(as, Keep)
WithoutSlotId(as, id) == LET Keep(a) == a.slotId # id IN SelectSeq(as, Keep)
WithoutId(xs, id) == LET Keep(x) == x.id # id IN SelectSeq(xs, Keep)

\* C15: a confirmed deleteCourse(id) removes the course id and the assignments
\* whose courseId is id, keeps every other course and assignment in order and the
\* registry; deleteCourse of an id that is not in the catalog changes nothing
C15_DeleteCourseCascade ==
    [][last'.op = "deleteCourse" =>
          \E id \in {last'.id} :
              IF \E i \in DOMAIN courses.items : courses.items[i].id = id
              THEN last'.prompt = "yes" =>
                      /\ \E cs \in {WithoutId(courses.items, id)} : CoursesAre(cs)'
                      /\ \E as \in {WithoutCourseId(assigns.items, id)} : AssignsAre(as)'
                      /\ UNCHANGED slots
              ELSE UNCHANGED <<courses, assigns, slots, storage>>]_steps

\* a course that had an assignment at startup has just been deleted with it, and
\* another course and its assignment are still there
C15_Witness ==
    /\ last.op = "deleteCourse"
    /\ last.prompt = "yes"
    /\ steps = 1
    /\ \E a \in DOMAIN loadLog[1].assigns.items : loadLog[1].assigns.items[a].courseId = last.id
    /\ \A a \in DOMAIN assigns.items : assigns.items[a].courseId # last.id
    /\ \A c \in DOMAIN courses.items : courses.items[c].id # last.id
    /\ Len(assigns.items) >= 1
    /\ Len(courses.items) >= 1

\* the registry is the given list
SlotsAre(s) == slots = s

\* C16: a confirmed deleteSlot(id) removes the slot id and the assignments whose
\* slotId is id, keeps the other slots and assignments in order, and the catalog
C16_DeleteSlotCascade ==
    [][(last'.op = "deleteSlot" /\ last'.prompt = "yes") =>
          \E id \in {last'.id} :
              /\ \E s \in {WithoutId(slots, id)} : SlotsAre(s)'
              /\ \E as \in {WithoutSlotId(assigns.items, id)} : AssignsAre(as)'
              /\ UNCHANGED courses]_steps

\* a slot that had an assignment at startup has just been deleted with it, and
\* another slot and its assignment are still there
C16_Witness ==
    /\ last.op = "deleteSlot"
    /\ last.prompt = "yes"
    /\ steps = 1
    /\ \E i \in DOMAIN loadLog[1].slots : loadLog[1].slots[i].id = last.id
    /\ \E a \in DOMAIN loadLog[1].assigns.items : loadLog[1].assigns.items[a].slotId = last.id
    /\ \A a \in DOMAIN assigns.items : assigns.items[a].slotId # last.id
    /\ \A i \in DOMAIN slots : slots[i].id # last.id
    /\ Len(assigns.items) >= 1
    /\ Len(slots) >= 1

DefaultIds == <<"09-11", "11-13", "14-16", "16-18">>

\* 09:00-11:00, 11:00-13:00, 14:00-16:00, 16:00-18:00
DefaultTimes ==
    << <<"0", "9", ":", "0", "0", "-", "1", "1", ":", "0", "0">>,
       <<"1", "1", ":", "0", "0", "-", "1", "3", ":", "0", "0">>,
       <<"1", "4", ":", "0", "0", "-", "1", "6", ":", "0", "0">>,
       <<"1", "6", ":", "0", "0", "-", "1", "8", ":", "0", "0">> >>

\* start-end of the slots of the registry, in order
SlotTimesInOrder == [i \in DOMAIN slots |-> slots[i].start \o <<"-">> \o slots[i].end]

\* the ids of the registry, in order
SlotIdsInOrder == [i \in DOMAIN slots |-> slots[i].id]

\* the given list without the assignments off the four default ids
OnDefaultIds(as) ==
    LET Keep(a) == \E k \in DOMAIN DefaultIds : a.slotId = DefaultIds[k] IN SelectSeq(as, Keep)

\* C17: a confirmed resetToDefaults makes the registry the four default slots in
\* the order 09-11, 11-13, 14-16, 16-18, removes the assignments whose slotId is
\* none of the four, and keeps the other assignments in order and the catalog
C17_ResetToDefaults ==
    [][(last'.op = "resetToDefaults" /\ last'.prompt = "yes") =>
          /\ SlotIdsInOrder' = DefaultIds
          /\ SlotTimesInOrder' = DefaultTimes
          /\ \E as \in {OnDefaultIds(assigns.items)} : AssignsAre(as)'
          /\ UNCHANGED courses]_steps

\* the reset has just replaced a registry with a custom slot and removed the
\* assignment on it, keeping the assignment on a default slot
C17_Witness ==
    /\ last.op = "resetToDefaults"
    /\ last.prompt = "yes"
    /\ SlotIdsInOrder = DefaultIds
    /\ \E a \in DOMAIN loadLog[1].assigns.items :
          /\ loadLog[1].assigns.items[a].slotId \notin Range(DefaultIds)
          /\ \A b \in DOMAIN assigns.items :
                assigns.items[b].id # loadLog[1].assigns.items[a].id
    /\ Len(assigns.items) >= 1

\* C18: saveSlotEdits gives the assignment shown in the selected cell the class
\* type, trimmed room and trimmed professors of the editor and changes no other
\* field, no other assignment, no course and no slot; with no assignment in the
\* selected cell it changes nothing
C18_SaveSlotEditsFrame ==
    [][last'.op = "saveSlotEdits" =>
          IF Occupants = {}
          THEN UNCHANGED <<assigns, courses, slots, storage>>
          ELSE /\ \E as \in {[i \in DOMAIN assigns.items |->
                                IF i = MaxOf(Occupants)
                                THEN [assigns.items[i] EXCEPT
                                         !.classType = slotEdit.classType,
                                         !.room = trim(slotEdit.room),
                                         !.professors = trim(slotEdit.professors)]
                                ELSE assigns.items[i]]} : AssignsAre(as)'
               /\ UNCHANGED <<courses, slots>>]_steps

\* saveSlotEdits has just stored an edited room, trimmed, beside another assignment
C18_Witness ==
    /\ last.op = "saveSlotEdits"
    /\ Occupants # {}
    /\ Len(assigns.items) >= 2
    /\ assigns.items[MaxOf(Occupants)].room = trim(slotEdit.room)
    /\ slotEdit.room # trim(slotEdit.room)
    /\ storage[AssignmentsKey].val = assigns
    /\ storage[AssignmentsKey] # loadLog[1].after[AssignmentsKey]

\* the registry is the given one with the slots at positions i and j exchanged
SlotsAreSwapOf(s, i, j) ==
    /\ Len(slots) = Len(s)
    /\ slots[i] = s[j]
    /\ slots[j] = s[i]
    /\ \A k \in DOMAIN s : k \notin {i, j} => slots[k] = s[k]

\* the registry holds every slot of the given one as many times as the given one
SlotsArePermutationOf(s) ==
    /\ Len(slots) = Len(s)
    /\ \A k \in DOMAIN s :
          Cardinality({m \in DOMAIN slots : slots[m] = s[k]})
              = Cardinality({m \in DOMAIN s : s[m] = s[k]})

\* C19: moveSlot(id, dir) exchanges the slot id with its neighbour in direction
\* dir; the registry stays as it is when id is first and dir = -1, last and
\* dir = +1, or not in the registry; the registry afterwards is a permutation of
\* the registry before, and the assignments and the catalog do not change
C19_MoveSlotSwaps ==
    [][last'.op = "moveSlot" =>
          \E id \in {last'.id}, dir \in {last'.dir}, s \in {slots} :
              LET at == {i \in DOMAIN s : s[i].id = id}
              IN /\ dir \in {-1, 1}
                 /\ IF at = {} THEN UNCHANGED slots
                    ELSE IF MinOf(at) + dir < 1 \/ MinOf(at) + dir > Len(s)
                    THEN UNCHANGED slots
                    ELSE \E i \in {MinOf(at)} : SlotsAreSwapOf(s, i, i + dir)'
                 /\ SlotsArePermutationOf(s)'
                 /\ UNCHANGED <<assigns, courses>>]_steps

\* the first slot of the startup registry has just been moved down below the second
C19_Witness ==
    /\ last.op = "moveSlot"
    /\ last.dir = 1
    /\ steps = 1
    /\ Len(slots) >= 3
    /\ slots[2].id = last.id
    /\ slots[2] = loadLog[1].slots[1]
    /\ slots[1] = loadLog[1].slots[2]
    /\ slots[3] = loadLog[1].slots[3]
    /\ Len(assigns.items) >= 1

\* the text under the key is the serialization of the array of the given items
Serializes(key, items) ==
    /\ storage[key].kind = "json"
    /\ storage[key].canon
    /\ storage[key].val.type = "array"
    /\ storage[key].val.items = items

\* C20: while the application runs, after startup and after every handler with
\* its effects, the three normalized keys hold the serializations of the slots,
\* courses and assignments in memory
C20_StorageFollowsMemory ==
    phase = "running" =>
        /\ Serializes(RegistryKey, slots)
        /\ Serializes(CatalogKey, courses.items)
        /\ Serializes(AssignmentsKey, assigns.items)

\* handlers have changed the registry and the assignments since startup
C20_Witness ==
    /\ phase = "running"
    /\ steps >= 2
    /\ slots # loadLog[1].slots
    /\ assigns # loadLog[1].assigns
    /\ Len(assigns.items) >= 1
    /\ storage[RegistryKey] # loadLog[1].after[RegistryKey]
    /\ storage[AssignmentsKey] # loadLog[1].after[AssignmentsKey]

\* C21: in every running state every slot of the registry has a start and an end
\* of the form HH:MM (24 hours) and a non-empty id
C21_SlotsWellFormed ==
    phase = "running" =>
        \A i \in DOMAIN slots :
            /\ isHHMM(slots[i].start)
            /\ isHHMM(slots[i].end)
            /\ slots[i].id # ""

(***************************************************************************)
(* normalizeSlots                                                          *)
(***************************************************************************)
\* a slot normalizeSlots accepts: non-empty id, start and end of the form HH:MM
ValidSlot(s) == s.id # "" /\ isHHMM(s.start) /\ isHHMM(s.end)

\* a returned call of normalizeSlots on the parsed serialization of valid slots
RoundTripOfValidSlots ==
    /\ call.fn = "normalizeSlots"
    /\ result.done
    /\ isArray(call.raw)
    /\ \A i \in DOMAIN call.raw.items : ValidSlot(call.raw.items[i])

\* C22 (as stated): normalizeSlots applied to the parsed serialization of a list of
\* slots with non-empty id, HH:MM start and end and any string label returns the
\* same list
C22_SlotRoundTrip ==
    RoundTripOfValidSlots => result.val = call.raw.items

\* C22 (amended): the returned list has the same length and order and the same id,
\* start and end for each slot; the label is the stored one when it is not the
\* empty string and start-dash-end when it is, so a list whose labels are all
\* non-empty comes back unchanged
C22_LabelledSlotRoundTrip ==
    RoundTripOfValidSlots =>
        /\ Len(result.val) = Len(call.raw.items)
        /\ \A i \in DOMAIN call.raw.items :
              /\ result.val[i].id = call.raw.items[i].id
              /\ result.val[i].start = call.raw.items[i].start
              /\ result.val[i].end = call.raw.items[i].end
              /\ result.val[i].label =
                    IF call.raw.items[i].label # <<>> THEN call.raw.items[i].label
                    ELSE recomputeLabel(call.raw.items[i].start, call.raw.items[i].end)
        /\ (\A i \in DOMAIN call.raw.items : call.raw.items[i].label # <<>>)
              => result.val = call.raw.items

\* a list of two valid slots, one with a label of its own and one with an empty
\* label, has gone through normalizeSlots
C22_Witness ==
    /\ RoundTripOfValidSlots
    /\ Len(call.raw.items) = 2
    /\ call.raw.items[1].label = <<"m">>
    /\ call.raw.items[2].label = <<>>

(***************************************************************************)
(* groupCourses                                                            *)
(***************************************************************************)
GroupsReturned == call.fn = "groupCourses" /\ result.done

\* position of a slot id in a registry without repeated ids, 0 when it is not there
PositionIn(sl, slotId) ==
    IF \E i \in DOMAIN sl : sl[i].id = slotId
    THEN CHOOSE i \in DOMAIN sl : sl[i].id = slotId
    ELSE 0
DayNumber(d) == CHOOSE i \in DOMAIN DAYS : DAYS[i] = d

\* session x may stand before session y: an earlier day, or the same day and
\* either y's slot is not in the registry, or both are and x's slot is not later
MayPrecede(x, y, sl) ==
    \/ DayNumber(x.day) < DayNumber(y.day)
    \/ /\ x.day = y.day
       /\ \/ PositionIn(sl, y.slotId) = 0
          \/ /\ PositionIn(sl, x.slotId) # 0
             /\ PositionIn(sl, x.slotId) <= PositionIn(sl, y.slotId)

\* C23: in every group groupCourses returns the sessions are ordered by day
\* Mon..Fri, then by the position of their slot in the registry, a session whose
\* slot id is not in the registry after every session of the same day whose slot is
C23_SessionsOrdered ==
    GroupsReturned =>
        \A g \in DOMAIN result.val :
            \A i, j \in DOMAIN result.val[g].sessions :
                i < j => MayPrecede(result.val[g].sessions[i], result.val[g].sessions[j],
                                    call.slots)

\* a group came back with three sessions handed over in another order: the first
\* on a later day than the second, the third on a slot that is not in the registry
C23_Witness ==
    /\ GroupsReturned
    /\ call.slots = <<DEFAULT_SLOTS[2], DEFAULT_SLOTS[1]>>
    /\ Len(call.assigns) = 3
    /\ call.assigns[1].courseId = "c1" /\ call.assigns[1].day = "Tue"
    /\ call.assigns[1].slotId = "gone"
    /\ call.assigns[2].courseId = "c1" /\ call.assigns[2].day = "Tue"
    /\ call.assigns[2].slotId = "09-11"
    /\ call.assigns[3].courseId = "c1" /\ call.assigns[3].day = "Mon"
    /\ \E g \in DOMAIN result.val :
          /\ Len(result.val[g].sessions) = 3
          /\ result.val[g].sessions[1] = call.assigns[3]
          /\ result.val[g].sessions[2] = call.assigns[2]
          /\ result.val[g].sessions[3] = call.assigns[1]

\* the groups i..j of the result stand in title order
TitleOrdered(groups, from, to) ==
    \A i, j \in from..to : i < j => localeCompare(groups[i].course.title, groups[j].course.title) <= 0

\* number of groups that have sessions
Placed(groups) == Cardinality({g \in DOMAIN groups : groups[g].sessions # <<>>})

Occurrences(seq, x) == Cardinality({i \in DOMAIN seq : seq[i] = x})

\* C24: groupCourses lists every course of the catalog exactly once: first the
\* courses with at least one assignment in title order, then the courses with none
\* in title order, each with an empty session list; every assignment whose course
\* is in the catalog appears exactly once, in the sessions of that course's group
C24_GroupsPartition ==
    GroupsReturned =>
        /\ Len(result.val) = Len(call.courses)
        /\ \A c \in DOMAIN call.courses :
              Cardinality({g \in DOMAIN result.val : result.val[g].course = call.courses[c]}) = 1
        /\ \A g \in DOMAIN result.val :
              /\ (g <= Placed(result.val)) <=> (result.val[g].sessions # <<>>)
              /\ (result.val[g].sessions # <<>>) <=>
                    (\E i \in DOMAIN call.assigns :
                        call.assigns[i].courseId = result.val[g].course.id)
              /\ \A a \in AssignPool :
                    Occurrences(result.val[g].sessions, a) =
                       IF a.courseId = result.val[g].course.id
                       THEN Occurrences(call.assigns, a) ELSE 0
        /\ TitleOrdered(result.val, 1, Placed(result.val))
        /\ TitleOrdered(result.val, Placed(result.val) + 1, Len(result.val))

\* a catalog of three courses came back as two placed courses in title order
\* followed by the course without assignments, whose title sorts between them
C24_Witness ==
    /\ GroupsReturned
    /\ Len(call.courses) = 3
    /\ Len(call.assigns) = 3
    /\ call.assigns[1].courseId = "c1"
    /\ call.assigns[2].courseId = Ghost
    /\ call.assigns[3].courseId = "c2"
    /\ Len(result.val) = 3
    /\ result.val[1].course.id = "c2" /\ Len(result.val[1].sessions) = 1
    /\ result.val[2].course.id = "c1" /\ Len(result.val[2].sessions) = 1
    /\ result.val[3].course.id = "c3" /\ result.val[3].sessions = <<>>

(***************************************************************************)
(* escapeHtml and the exported page                                        *)
(***************************************************************************)
Entities == {<<"&", "a", "m", "p", ";">>, <<"&", "l", "t", ";">>, <<"&", "g", "t", ";">>,
             <<"&", "q", "u", "o", "t", ";">>, <<"&", "#", "0", "3", "9", ";">>}

\* no angle bracket and no quote stands in the text as a character of its own, and
\* every ampersand begins one of the five entities
Neutral(text) ==
    \A i \in DOMAIN text :
        /\ text[i] \notin {"<", ">", "\"", "'"}
        /\ text[i] = "&" =>
              \E e \in Entities : i + Len(e) - 1 <= Len(text) /\ SubSeq(text, i, i + Len(e) - 1) = e

Contains(text, part) ==
    \E i \in 0..(Len(text) - Len(part)) : SubSeq(text, i + 1, i + Len(part)) = part

\* the page shows the fields of every course of the catalog, the label of every
\* slot of the registry and the room and professors of every listed session in
\* their escaped form
ShowsEscaped(page, cs, as, sl) ==
    /\ \A c \in DOMAIN cs :
          /\ Contains(page, <<"<li class=\"li\"><div class=\"liTitle\">">>
                            \o escapeHtml(cs[c].title))
          /\ cs[c].courseUrl # <<>> =>
                Contains(page, <<"<a href=\"">> \o escapeHtml(cs[c].courseUrl)
                               \o <<"\" target=\"_blank\" rel=\"noreferrer\">">>
                               \o escapeHtml(cs[c].courseUrl) \o <<"</a>">>)
          /\ trim(cs[c].defaultProfessors) # <<>> =>
                Contains(page, <<"</div><div class=\"liMeta\"><b>[professors (default):]</b> ">>
                               \o escapeHtml(cs[c].defaultProfessors))
    /\ \A i \in DOMAIN sl :
          Contains(page, <<"<tr><th class=\"rowHead\">">> \o escapeHtml(sl[i].label) \o <<"</th>">>)
    /\ \A i \in DOMAIN as :
          (courseMapHas(cs, as[i].courseId) /\ as[i].room # <<>>) =>
              Contains(page, <<"</span><span class=\"room\">">> \o escapeHtml(as[i].room)
                             \o <<"</span><span class=\"muted\">|</span><span>">>)
    /\ \A i \in DOMAIN as :
          (courseMapHas(cs, as[i].courseId) /\ as[i].professors # <<>>) =>
              Contains(page, <<"</span><span class=\"muted\">|</span><span>">>
                             \o escapeHtml(as[i].professors) \o <<"</span></div>">>)

\* C25: the result of escapeHtml holds no '<', '>', '"' or single quote and every
\* '&' in it begins one of the five entities; the text "&lt;" is escaped once, to
\* "&amp;lt;", and "<script>" becomes "&lt;script&gt;"; every title, room,
\* professors value, course URL and slot label in the page buildExportHtml returns
\* stands there as escapeHtml returns it, so that no interpolated value brings a
\* special character of its own into the page
C25_SpecialCharactersNeutralised ==
    /\ (call.fn = "escapeHtml" /\ result.done) =>
          /\ Neutral(result.val)
          /\ call.s = <<"&", "l", "t", ";">> => result.val = <<"&", "a", "m", "p", ";", "l", "t", ";">>
          /\ call.s = <<"<", "s", "c", "r", "i", "p", "t", ">">> =>
                result.val = <<"&", "l", "t", ";", "s", "c", "r", "i", "p", "t", "&", "g", "t", ";">>
    /\ (call.fn = "buildExportHtml" /\ result.done) =>
          /\ Neutral(result.val)
          /\ ShowsEscaped(result.val, call.courses, call.assigns, call.slots)

\* a page was built from a course titled "<script>" placed in a cell with a quote
\* for a room, on a registry with a label that is a tag
C25_Witness ==
    /\ call.fn = "buildExportHtml" /\ result.done
    /\ Len(call.courses) = 2
    /\ Len(call.assigns) = 2 /\ call.assigns[1].id = "a1" /\ call.assigns[2].id = "a2"
    /\ call.slots # DEFAULT_SLOTS
    /\ Contains(result.val, <<"&", "l", "t", ";", "s", "c", "r", "i", "p", "t", "&", "g", "t", ";">>)
    /\ Contains(result.val, <<"&", "#", "0", "3", "9", ";">>)
    /\ Contains(result.val, <<"&", "l", "t", ";", "b", "&", "g", "t", ";">>)

(***************************************************************************)
(* Fresh load and the placeholder of the exported page                     *)
(***************************************************************************)
NothingStored(st) == \A k \in DOMAIN st : st[k].kind = "absent"

\* the session was started on a storage without any key
FreshSession == phase = "running" /\ Len(loadLog) = 1 /\ NothingStored(loadLog[1].before)

\* C26: after a startup with no key in storage the registry is the four defaults
\* (ids 09-11, 11-13, 14-16, 16-18 with their times, in that order) and the catalog
\* and the assignment list are empty; a page built by buildExportHtml holds the
\* "no entries" placeholder exactly when the catalog it was built from is empty,
\* so the page built from the fresh state holds it
C26_FreshLoadAndPlaceholder ==
    /\ (FreshSession /\ last.op = "load") =>
          /\ SlotIdsInOrder = DefaultIds
          /\ SlotTimesInOrder = DefaultTimes
          /\ courses = Arr(<<>>)
          /\ assigns = Arr(<<>>)
    /\ (call.fn = "buildExportHtml" /\ result.done) =>
          (Contains(result.val, <<NoEntries>>) <=> call.courses = <<>>)

\* the page was exported from the state a fresh load left: four default slots, no
\* course, no assignment; it holds the placeholder
C26_Witness ==
    /\ FreshSession
    /\ last.op = "downloadExportHtml"
    /\ SlotIdsInOrder = DefaultIds
    /\ courses = Arr(<<>>) /\ assigns = Arr(<<>>)
    /\ call.courses = <<>> /\ call.slots = DEFAULT_SLOTS
    /\ Contains(result.val, <<NoEntries>>)

(***************************************************************************)
(* Storage failures                                                        *)
(***************************************************************************)
StorageFailed ==
    /\ call.fn \in {"localStorage.getItem", "localStorage.setItem"}
    /\ result.done
    /\ result.threw

\* C27: when a read or a write of the storage fails, at startup or after a
\* mutation, the failure is reported to the user and the session goes on: the page
\* is still running and accepts further operations
C27_StorageFailureNotFatal ==
    StorageFailed => (phase = "running" /\ last.prompt = "alert")

(***************************************************************************)
(* Field mapping of the migration                                          *)
(***************************************************************************)
\* the course an assignment of the list refers to
CourseOf(cs, a) == cs[CHOOSE c \in DOMAIN cs : cs[c].id = a.courseId]

\* C28: each assignment synthesized from a legacy entry carries the entry's day, its
\* slot identifier (slotId when a string, otherwise slot), its room (empty when not
\* a string), the entry's classType when that is THEORY or LAB and THEORY otherwise,
\* and the entry's professors when non-empty, otherwise the default professors of
\* the synthesized course; the record {title "Algorithms", day Mon, slot "09-11",
\* room "A1", professors "Smith"} on the default registry gives one course
\* "Algorithms" with defaultProfessors "Smith" and one assignment at Mon/09-11
\* with room "A1"
C28_MigrationFieldMapping ==
    \A i \in DOMAIN loadLog :
        loadLog[i].migrated =>
            /\ Len(loadLog[i].assigns.items) =
                  Len(Placeable(WinningEntries(loadLog[i]), loadLog[i].slots))
            /\ \A j \in DOMAIN loadLog[i].assigns.items :
                  \E x \in {Placeable(WinningEntries(loadLog[i]), loadLog[i].slots)[j]} :
                  \E a \in {loadLog[i].assigns.items[j]} :
                     /\ a.day = x.day.v
                     /\ a.slotId = IF x.slotId.t = "string" THEN x.slotId.v ELSE x.slot.v
                     /\ a.room = IF x.room.t = "string" THEN x.room.v ELSE <<>>
                     /\ a.classType = IF x.classType.t = "string" /\ x.classType.v \in ClassTypes
                                      THEN x.classType.v ELSE "THEORY"
                     /\ a.professors =
                           IF x.professors.t = "string" /\ x.professors.v # <<>>
                           THEN x.professors.v
                           ELSE CourseOf(loadLog[i].courses.items, a).defaultProfessors
            /\ (WinningEntries(loadLog[i]) = <<AlgorithmsEntry>> /\ loadLog[i].slots = DEFAULT_SLOTS) =>
                  /\ Len(loadLog[i].courses.items) = 1
                  /\ loadLog[i].courses.items[1].title =
                        <<"A", "l", "g", "o", "r", "i", "t", "h", "m", "s">>
                  /\ loadLog[i].courses.items[1].defaultProfessors = <<"S", "m", "i", "t", "h">>
                  /\ Len(loadLog[i].assigns.items) = 1
                  /\ loadLog[i].assigns.items[1].day = "Mon"
                  /\ loadLog[i].assigns.items[1].slotId = "09-11"
                  /\ loadLog[i].assigns.items[1].room = <<"A", "1">>
                  /\ loadLog[i].assigns.items[1].courseId = loadLog[i].courses.items[1].id

\* the Algorithms record was migrated on the default registry and gave one course
\* and one assignment
C28_Witness ==
    /\ Len(loadLog) >= 1
    /\ loadLog[1].migrated
    /\ WinningEntries(loadLog[1]) = <<AlgorithmsEntry>>
    /\ loadLog[1].slots = DEFAULT_SLOTS
    /\ Len(loadLog[1].courses.items) = 1
    /\ Len(loadLog[1].assigns.items) = 1

(***************************************************************************)
(* Referential integrity                                                   *)
(***************************************************************************)
\* every assignment names a course of the catalog and a slot of the registry
RefIntegrity ==
    \A i \in DOMAIN assigns.items :
        /\ \E c \in DOMAIN courses.items : courses.items[c].id = assigns.items[i].courseId
        /\ \E k \in DOMAIN slots : slots[k].id = assigns.items[i].slotId

\* every assignment that is not in the given list stands on a slot of the registry
NewOnRegistry(as) ==
    \A i \in DOMAIN assigns.items :
        (\A j \in DOMAIN as : as[j].id # assigns.items[i].id) =>
            \E k \in DOMAIN slots : slots[k].id = assigns.items[i].slotId

\* C29: an operation started in a state where every assignment references a course
\* of the catalog and a slot of the registry ends in such a state; and
\* placeSelectedCourseToCell never creates an assignment on a slot id that is not
\* in the registry, whatever state it starts in
C29_ReferentialIntegrityKept ==
    [][/\ RefIntegrity => RefIntegrity'
       /\ last'.op = "placeSelectedCourseToCell" =>
             \E as \in {assigns.items} : NewOnRegistry(as)']_steps

\* the first slot of the registry, on which the selection stood, was deleted on
\* the setup screen and the selection moved to the slot that is now first; back on
\* the main screen a course was chosen and placed into the selected cell, which
\* was empty: the new assignment stands on a slot of the registry
C29_Witness ==
    /\ phase = "running"
    /\ last.op = "placeSelectedCourseToCell"
    /\ last.prompt = "none"
    /\ steps = MaxDeepSteps
    /\ \A k \in DOMAIN slots : slots[k].id # loadLog[1].slots[1].id
    /\ selectedCell.slotId = slots[1].id
    /\ Len(assigns.items) >= 1
    /\ assigns.items[Len(assigns.items)].slotId = selectedCell.slotId
    /\ assigns.items[Len(assigns.items)].courseId = selectedCourseId
    /\ \A j \in DOMAIN loadLog[1].assigns.items :
           loadLog[1].assigns.items[j].id # assigns.items[Len(assigns.items)].id
    /\ RefIntegrity

(***************************************************************************)
(* Reload                                                                  *)
(***************************************************************************)
\* what the useState initializer returns on the storage of the current state: the
\* state a fresh startup would begin with
Reloaded == initState(storage, clock)

\* C30: in every running state, whose persist effects have run, a fresh startup
\* load from the storage yields the registry (same slots, same order), the catalog
\* and the assignment list of the state, and every loaded assignment references a
\* loaded slot; states with an empty registry or with a slot edited to a start or
\* end that is not HH:MM included
C30_ReloadRestoresSession ==
    phase = "running" =>
        /\ Reloaded.slots = slots
        /\ Reloaded.courses = courses
        /\ Reloaded.assigns = assigns
        /\ \A i \in DOMAIN Reloaded.assigns.items :
              \E k \in DOMAIN Reloaded.slots :
                  Reloaded.slots[k].id = Reloaded.assigns.items[i].slotId

====
